---------------------------- MODULE Spec2Model ----------------------------
(*
  Verification model of the GLOF early-warning analysis services:

    Backend/SAR                     SARAnalyzer       (sar_service.py)
    Backend/lake_size               LakeAnalyzer      (lake_service.py)
    Backend/srtm & motionOfWaves    DEMAnalyzer       (dem_service.py)
                                    MotionDetector    (motion_service.py)
    Backend/GLOF                    GLOFPredictor     (prediction_service.py)

  The services are separate processes that share no state, so each one has
  its own specification (SpecSAR, SpecLake, SpecDEM, SpecMotion, SpecGLOF)
  over the same variables; a specification leaves the variables of the other
  services at their initial value.

  Numbers.  The code computes on floats.  The model computes on integers in a
  fixed unit per quantity (named where it is used) and on exact rationals
  <<numerator, denominator>>, and models Python's round(x, n) as rounding to
  the nearest multiple of the presentation unit, ties to even.
*)
EXTENDS Integers, Naturals, Sequences, FiniteSets, TLC

VARIABLES
    raised,        \* entry point whose exception escaped to its caller, or "none"
    sar_model,     \* SARAnalyzer.model is not None
    sar_pc,        \* position of analyze_batch: "idle", "loop", "done"
    sar_paths,     \* analyze_batch: image_paths
    sar_results,   \* analyze_batch: results
    sar_out,       \* value returned by the last finished SAR call
    lake_pc,       \* position of compare_images: "idle", "loop", "done", "raised"
    lake_paths,    \* compare_images: image_paths
    lake_res,      \* compare_images: resolution argument
    lake_results,  \* compare_images: results
    lake_in,       \* image given to the last analyze_image upload
    lake_out,      \* value returned by the last finished lake call
    dem_rasterio,  \* the rasterio package can be imported
    dem_in,        \* DEM given to the last analyze_dem call
    dem_out,       \* value returned by the last analyze_dem call
    mot_pc,        \* position of analyze_video: "idle", "loop", "done"
    mot_video,     \* analyze_video: the frames cap.read() will deliver
    mot_skip,      \* analyze_video: frame_skip
    mot_max,       \* analyze_video: max_frames
    mot_prev,      \* analyze_video: prev_frame (NoFrame for None)
    mot_count,     \* analyze_video: frame_count
    mot_analyzed,  \* analyze_video: analyzed_count
    mot_results,   \* analyze_video: results
    mot_out,       \* value returned by the last finished motion call
    mot_estimated_depth, \* MotionDetector.estimated_depth, in tenths of a metre
    glof_loaded,   \* GLOFPredictor.model_loaded
    glof_scores,   \* what get_score answers for the model file that was loaded
    glof_baseline, \* GLOFPredictor.sensor_baseline
    glof_steps,    \* number of generate_sensor_values calls so far
    glof_p,        \* predict: the local variable probability of the last call
    glof_out,      \* value returned by the last GLOF call
    glof_in,       \* the request the last GLOF call served
    req_pc,        \* per request of the GLOF event loop: "idle", "ready", "loop", "done"
    req_kind,      \* per request: the endpoint it called
    req_i,         \* per request: keys of sensor_baseline its for loop has updated
    req_values,    \* per request: the sensor values its handler obtained
    pre_pc,        \* position of the SARPreprocessor call: "idle", a stage, "raised"
    pre_entry,     \* the SARPreprocessor method that was called
    pre_image,     \* the decoded image, or the grid a stage was called on
    pre_value,     \* the value of the last statement of the call
    alert_env,     \* the alerting environment: recipients, Twilio settings, library
    alert_pc,      \* position of send_sms_alert: "idle" or "loop"
    alert_prediction, \* the prediction send_alert obtained
    alert_nearest, \* the nearest safe location send_sms_alert found
    alert_attempted,  \* the numbers client.messages.create was called for
    alert_sent,    \* sent_count
    alert_errors   \* errors

vars == <<raised, sar_model, sar_pc, sar_paths, sar_results, sar_out,
          lake_pc, lake_paths, lake_res, lake_results, lake_in, lake_out,
          dem_rasterio, dem_in, dem_out,
          mot_pc, mot_video, mot_skip, mot_max, mot_prev, mot_count,
          mot_analyzed, mot_results, mot_out, mot_estimated_depth,
          glof_loaded, glof_scores, glof_baseline, glof_steps, glof_p, glof_out,
          glof_in,
          req_pc, req_kind, req_i, req_values,
          pre_pc, pre_entry, pre_image, pre_value,
          alert_env, alert_pc, alert_prediction, alert_nearest,
          alert_attempted, alert_sent, alert_errors>>

sarVars  == <<sar_model, sar_pc, sar_paths, sar_results, sar_out>>
lakeVars == <<lake_pc, lake_paths, lake_res, lake_results, lake_in, lake_out>>
demVars  == <<dem_rasterio, dem_in, dem_out>>
motVars  == <<mot_pc, mot_video, mot_skip, mot_max, mot_prev, mot_count,
              mot_analyzed, mot_results, mot_out, mot_estimated_depth>>
glofVars == <<glof_loaded, glof_scores, glof_baseline, glof_steps, glof_p, glof_out,
              glof_in>>
reqVars  == <<req_pc, req_kind, req_i, req_values>>
preVars  == <<pre_pc, pre_entry, pre_image, pre_value>>
alertVars == <<alert_env, alert_pc, alert_prediction, alert_nearest,
               alert_attempted, alert_sent, alert_errors>>

\* the services are separate processes: a step of one leaves the others alone
notSAR    == <<lakeVars, demVars, motVars, glofVars, reqVars, preVars,
              alertVars>>
notLake   == <<sarVars, demVars, motVars, glofVars, reqVars, preVars,
              alertVars>>
notDEM    == <<sarVars, lakeVars, motVars, glofVars, reqVars, preVars,
              alertVars>>
notMotion == <<sarVars, lakeVars, demVars, glofVars, reqVars, preVars,
              alertVars>>
notGLOF   == <<sarVars, lakeVars, demVars, motVars, preVars, alertVars>>
notAlert  == <<sarVars, lakeVars, demVars, motVars, preVars, reqVars>>
notPre    == <<sarVars, lakeVars, demVars, motVars, glofVars, reqVars, alertVars>>

NoResult == [none |-> TRUE]

-----------------------------------------------------------------------------
(* Arithmetic helpers *)

\* Python round(): nearest integer to num/den (den > 0), ties to even.
RoundHalfEven(num, den) ==
    LET q == num \div den
        r == num % den
    IN  IF 2 * r < den THEN q
        ELSE IF 2 * r > den THEN q + 1
        ELSE IF q % 2 = 0 THEN q ELSE q + 1

RECURSIVE SumSeq(_)
SumSeq(s) == IF s = <<>> THEN 0 ELSE Head(s) + SumSeq(Tail(s))

RECURSIVE MaxSeq(_)
MaxSeq(s) == IF Len(s) = 1 THEN s[1]
             ELSE LET m == MaxSeq(Tail(s)) IN IF s[1] >= m THEN s[1] ELSE m

Min2(a, b) == IF a <= b THEN a ELSE b
Max2(a, b) == IF a >= b THEN a ELSE b

\* [r for r in results if r.get("success", False)]
RECURSIVE SelectSuccess(_)
SelectSuccess(s) ==
    IF s = <<>> THEN <<>>
    ELSE IF Head(s).success THEN <<Head(s)>> \o SelectSuccess(Tail(s))
         ELSE SelectSuccess(Tail(s))

SeqsUpTo(S, n) == UNION { [1..k -> S] : k \in 0..n }

-----------------------------------------------------------------------------
(* SAR service: Backend/SAR/sar_service.py, Backend/SAR/config.py

   Units: a class probability is an integer number of 1/10000 (so that the
   percentage p * 100 is in hundredths of a percent); the weighted GLOF
   probability is computed in thousandths of a percent and presented, after
   round(x, 2), in hundredths of a percent. *)

MaxBatch == 3                     \* longest image_paths list explored

CLASS_LABELS == <<"pre_glof", "during_glof", "post_glof">>

RISK_MAPPING ==
    [pre_glof    |-> [risk_level |-> "LOW",      risk_score |-> 25,
                      message |-> "Normal conditions - Pre-GLOF state"],
     during_glof |-> [risk_level |-> "CRITICAL", risk_score |-> 95,
                      message |-> "GLOF IN PROGRESS - Immediate evacuation required!"],
     post_glof   |-> [risk_level |-> "MODERATE", risk_score |-> 50,
                      message |-> "Post-GLOF conditions - Monitor for secondary events"]]

\* The image files on the server: what decoding gives and what the classifier
\* answers for the decoded image (class probabilities in 1/10000).
SARFiles ==
    [ img_bad    |-> [readable |-> FALSE, infer_ok |-> TRUE,  predictions |-> <<0, 0, 0>>],
      img_crash  |-> [readable |-> TRUE,  infer_ok |-> FALSE, predictions |-> <<0, 0, 0>>],
      img_pre    |-> [readable |-> TRUE,  infer_ok |-> TRUE,  predictions |-> <<9002, 334, 664>>],
      img_during |-> [readable |-> TRUE,  infer_ok |-> TRUE,  predictions |-> <<0, 10000, 0>>],
      img_post   |-> [readable |-> TRUE,  infer_ok |-> TRUE,  predictions |-> <<1234, 6, 8760>>] ]

SARPaths == DOMAIN SARFiles

\* The images uploaded to POST /api/analyze: the images above and images on
\* which the classifier gives two or three classes the same probability.
SARUploads ==
    {SARFiles[path] : path \in SARPaths} \cup
    {[readable |-> TRUE, infer_ok |-> TRUE, predictions |-> p] :
        p \in {<<5000, 5000, 0>>, <<0, 5000, 5000>>, <<4000, 2000, 4000>>,
               <<2500, 2500, 5000>>}}

\* np.argmax: the first index holding the maximum
ArgMax(p) == CHOOSE i \in 1..Len(p) :
                 /\ \A j \in 1..Len(p) : p[j] <= p[i]
                 /\ \A j \in 1..(i - 1) : p[j] < p[i]

\* SARAnalyzer._format_prediction
FormatPrediction(predictions) ==
    LET predicted_class == CLASS_LABELS[ArgMax(predictions)]
        risk_info == RISK_MAPPING[predicted_class]
        \* thousandths of a percent: during * 1.0 + post * 0.3 + pre * 0.1
        weighted == 10 * predictions[2] + 3 * predictions[3] + 1 * predictions[1]
        glof_probability == Min2(100000, weighted)
    IN  [success          |-> TRUE,
         predicted_class  |-> predicted_class,
         confidence       |-> predictions[ArgMax(predictions)],
         probabilities    |-> predictions,
         glof_probability |-> RoundHalfEven(glof_probability, 10),
         risk_level       |-> risk_info.risk_level,
         risk_score       |-> risk_info.risk_score,
         message          |-> risk_info.message]

\* SARAnalyzer.predict / predict_from_bytes: the guard on the model and the
\* try/except around preprocessing and inference
SARPredict(model, image) ==
    IF ~model THEN [error |-> "Model not loaded", success |-> FALSE]
    ELSE IF ~image.readable THEN [error |-> "Could not read image", success |-> FALSE]
    ELSE IF ~image.infer_ok THEN [error |-> "inference failed", success |-> FALSE]
    ELSE FormatPrediction(image.predictions)

RECURSIVE GlofProbabilities(_)
GlofProbabilities(rs) ==
    IF rs = <<>> THEN <<>>
    ELSE <<Head(rs).glof_probability>> \o GlofProbabilities(Tail(rs))

\* analyze_batch, lines 196-216, mutated: the mean divides by the number of
\* inputs instead of the number of successful analyses
BatchAggregateOverAll(image_paths, results) ==
    LET successful == SelectSuccess(results)
        probs == GlofProbabilities(successful)
    IN  IF successful # <<>>
        THEN [success                  |-> TRUE,
              total_images             |-> Len(image_paths),
              successful_analyses      |-> Len(successful),
              average_glof_probability |-> RoundHalfEven(SumSeq(probs), Len(results)),
              max_glof_probability     |-> MaxSeq(probs),
              individual_results       |-> results]
        ELSE [success            |-> FALSE,
              error              |-> "No images could be analyzed",
              individual_results |-> results]

\* analyze_batch, lines 196-216: the aggregate over the successful results
BatchAggregate(image_paths, results) ==
    LET successful == SelectSuccess(results)
        probs == GlofProbabilities(successful)
    IN  IF successful # <<>>
        THEN [success                  |-> TRUE,
              total_images             |-> Len(image_paths),
              successful_analyses      |-> Len(successful),
              average_glof_probability |-> RoundHalfEven(SumSeq(probs), Len(successful)),
              max_glof_probability     |-> MaxSeq(probs),
              individual_results       |-> results]
        ELSE [success            |-> FALSE,
              error              |-> "No images could be analyzed",
              individual_results |-> results]

\* POST /api/analyze/path -> SARAnalyzer.predict(image_path)
SARPredictPath(path) ==
    /\ UNCHANGED notSAR
    /\ sar_pc = "idle"
    /\ sar_out' = SARPredict(sar_model, SARFiles[path])
    /\ sar_pc' = "done"
    /\ sar_paths' = <<>>
    /\ sar_results' = <<>>
    /\ UNCHANGED <<sar_model, raised>>

\* POST /api/analyze -> SARAnalyzer.predict_from_bytes(contents): the same
\* steps as predict on the uploaded bytes of an image
SARPredictBytes(image) ==
    /\ UNCHANGED notSAR
    /\ sar_pc = "idle"
    /\ sar_out' = SARPredict(sar_model, image)
    /\ sar_pc' = "done"
    /\ sar_paths' = <<>>
    /\ sar_results' = <<>>
    /\ UNCHANGED <<sar_model, raised>>

\* analyze_batch is entered: results = []
SARBatchStart(image_paths) ==
    /\ UNCHANGED notSAR
    /\ sar_pc = "idle"
    /\ sar_pc' = "loop"
    /\ sar_paths' = image_paths
    /\ sar_results' = <<>>
    /\ sar_out' = NoResult
    /\ UNCHANGED <<sar_model, raised>>

\* one iteration of "for path in image_paths"
SARBatchIter ==
    /\ UNCHANGED notSAR
    /\ sar_pc = "loop"
    /\ Len(sar_results) < Len(sar_paths)
    /\ LET path == sar_paths[Len(sar_results) + 1]
           result == SARPredict(sar_model, SARFiles[path])
       IN  sar_results' = Append(sar_results, result @@ [image_path |-> path])
    /\ UNCHANGED <<sar_model, sar_pc, sar_paths, sar_out, raised>>

\* the loop is over: aggregate and return
SARBatchReturn ==
    /\ UNCHANGED notSAR
    /\ sar_pc = "loop"
    /\ Len(sar_results) = Len(sar_paths)
    /\ sar_out' = BatchAggregate(sar_paths, sar_results)
    /\ sar_pc' = "done"
    /\ UNCHANGED <<sar_model, sar_paths, sar_results, raised>>

\* the request handler returns the value to the client
SARRespond ==
    /\ UNCHANGED notSAR
    /\ sar_pc = "done"
    /\ sar_pc' = "idle"
    /\ sar_paths' = <<>>
    /\ sar_results' = <<>>
    /\ sar_out' = NoResult
    /\ UNCHANGED <<sar_model, raised>>

SARNext ==
    \/ \E path \in SARPaths : SARPredictPath(path)
    \/ \E image \in SARUploads : SARPredictBytes(image)
    \/ \E image_paths \in SeqsUpTo(SARPaths, MaxBatch) : SARBatchStart(image_paths)
    \/ SARBatchIter
    \/ SARBatchReturn
    \/ SARRespond

-----------------------------------------------------------------------------
(* Lake service: Backend/lake_size/lake_service.py, Backend/lake_size/config.py

   An image is described by what segmentation measures on it: the pixel
   counts of the largest lake and ice regions before and after dilation and
   the number of pixels of the image.  Areas are integers (pixel count times
   the integer resolution squared); percentages are exact rationals
   <<numerator, denominator>>; a presented percentage or average is in
   hundredths, after round(x, 2). *)

MaxPixels == 30                   \* pixels of an uploaded image
MaxImages == 3                    \* longest image_paths list explored

DEFAULT_RESOLUTION == 10

\* resolution arguments: 0 stands for "not given" (resolution or self.resolution)
Resolutions == {0, 3}

IcePairs == { <<0, 0>>, <<2, 5>> }

UnreadableImage ==
    [readable |-> FALSE, pixels |-> 0, lake_before |-> 0, lake_after |-> 0,
     ice_before |-> 0, ice_after |-> 0]

\* The lake mask (gray <= Otsu threshold) always holds the darkest pixel, so
\* the largest lake region has at least one pixel; dilation only adds pixels.
LakeUploads ==
    { UnreadableImage } \cup
    { img \in [readable : {TRUE}, pixels : {MaxPixels},
               lake_before : 1..MaxPixels, lake_after : 1..MaxPixels,
               ice_before : 0..2, ice_after : {0, 5}] :
          /\ img.lake_before <= img.lake_after
          /\ <<img.ice_before, img.ice_after>> \in IcePairs }

\* The image files on the server, in the order they were taken
LakeFiles ==
    [ scan_bad |-> UnreadableImage,
      scan_1   |-> [readable |-> TRUE, pixels |-> 30, lake_before |-> 5,  lake_after |-> 6,
                    ice_before |-> 2, ice_after |-> 5],
      scan_2   |-> [readable |-> TRUE, pixels |-> 30, lake_before |-> 5,  lake_after |-> 10,
                    ice_before |-> 0, ice_after |-> 0],
      scan_3   |-> [readable |-> TRUE, pixels |-> 30, lake_before |-> 10, lake_after |-> 13,
                    ice_before |-> 2, ice_after |-> 5] ]

LakePaths == DOMAIN LakeFiles

\* rational r = <<num, den>>, den > 0, compared with the integer k
RatGt(r, k) == r[1] > k * r[2]

\* round(r, 2) of the rational r, in hundredths
Round2(r) == RoundHalfEven(100 * r[1], r[2])

\* process_glacial_image of lake.py, lines 66-68: the same quotient, inline
ProcessGlacialImageChangePercent(size_before_m2, size_after_m2) ==
    IF size_before_m2 > 0
    THEN <<(size_after_m2 - size_before_m2) * 100, size_before_m2>>
    ELSE <<0, 1>>

\* LakeAnalyzer._calculate_change_percent, mutated: relative to the size after
CalculateChangePercentOfAfter(before, after) ==
    IF before > 0 THEN <<(after - before) * 100, after>> ELSE <<0, 1>>

\* LakeAnalyzer._calculate_change_percent
CalculateChangePercent(before, after) ==
    IF before > 0 THEN <<(after - before) * 100, before>> ELSE <<0, 1>>

\* LakeAnalyzer._assess_risk, mutated: the HIGH row compares with >=
LakeAssessRiskInclusive(lake_change, water_percentage) ==
    IF ~(lake_change[1] < 20 * lake_change[2]) \/ RatGt(water_percentage, 60) THEN "HIGH"
    ELSE IF RatGt(lake_change, 10) \/ RatGt(water_percentage, 40) THEN "MODERATE"
    ELSE "LOW"

\* LakeAnalyzer._assess_risk
LakeAssessRisk(lake_change, water_percentage) ==
    IF RatGt(lake_change, 20) \/ RatGt(water_percentage, 60) THEN "HIGH"
    ELSE IF RatGt(lake_change, 10) \/ RatGt(water_percentage, 40) THEN "MODERATE"
    ELSE "LOW"

\* LakeAnalyzer.analyze_image: a result, or the exception it raises
LakeAnalyzeImage(image, resolution_arg) ==
    LET resolution == IF resolution_arg # 0 THEN resolution_arg ELSE DEFAULT_RESOLUTION
        lake_size_before_m2 == image.lake_before * (resolution * resolution)
        ice_size_before_m2  == image.ice_before * (resolution * resolution)
        lake_size_after_m2  == image.lake_after * (resolution * resolution)
        ice_size_after_m2   == image.ice_after * (resolution * resolution)
        lake_change_percent == CalculateChangePercent(lake_size_before_m2, lake_size_after_m2)
        ice_change_percent  == CalculateChangePercent(ice_size_before_m2, ice_size_after_m2)
        total_area_m2       == image.pixels * (resolution * resolution)
        water_percentage    == IF total_area_m2 > 0
                               THEN <<lake_size_after_m2 * 100, total_area_m2>>
                               ELSE <<0, 1>>
    IN  IF ~image.readable
        THEN [raise |-> "ValueError: Could not read image"]
        ELSE [success |-> TRUE,
              resolution_m_per_pixel |-> resolution,
              lake |-> [size_before_m2 |-> lake_size_before_m2,
                        size_after_m2  |-> lake_size_after_m2,
                        change_percent |-> Round2(lake_change_percent)],
              ice  |-> [size_before_m2 |-> ice_size_before_m2,
                        size_after_m2  |-> ice_size_after_m2,
                        change_percent |-> Round2(ice_change_percent)],
              coverage |-> [total_area_m2    |-> total_area_m2,
                            water_percentage |-> Round2(water_percentage)],
              risk |-> [level |-> LakeAssessRisk(lake_change_percent, water_percentage)]]

Raises(r) == "raise" \in DOMAIN r

RECURSIVE LakeSizes(_)
LakeSizes(rs) ==
    IF rs = <<>> THEN <<>>
    ELSE IF Head(rs).success THEN <<Head(rs).lake.size_after_m2>> \o LakeSizes(Tail(rs))
         ELSE LakeSizes(Tail(rs))

\* compare_images, lines 235-248, mutated: the average divides by the number
\* of sizes instead of the number of intervals
TrendAnalysisPerImage(results) ==
    LET lake_sizes == LakeSizes(results)
        n == Len(lake_sizes)
        total_change == lake_sizes[n] - lake_sizes[1]
    IN  IF Len(results) >= 2
        THEN IF n >= 2
             THEN [trend |-> IF total_change > 0 THEN "EXPANDING"
                             ELSE IF total_change < 0 THEN "SHRINKING" ELSE "STABLE",
                   total_lake_change_m2        |-> total_change,
                   average_change_per_image_m2 |-> Round2(<<total_change, n>>)]
             ELSE [trend |-> "UNKNOWN",
                   total_lake_change_m2 |-> 0, average_change_per_image_m2 |-> 0]
        ELSE [trend |-> "INSUFFICIENT_DATA",
              total_lake_change_m2 |-> 0, average_change_per_image_m2 |-> 0]

\* compare_images, lines 235-248: "Calculate trends"
TrendAnalysis(results) ==
    LET lake_sizes == LakeSizes(results)
        n == Len(lake_sizes)
        total_change == lake_sizes[n] - lake_sizes[1]
    IN  IF Len(results) >= 2
        THEN IF n >= 2
             THEN [trend |-> IF total_change > 0 THEN "EXPANDING"
                             ELSE IF total_change < 0 THEN "SHRINKING" ELSE "STABLE",
                   total_lake_change_m2        |-> total_change,
                   average_change_per_image_m2 |-> Round2(<<total_change, n - 1>>)]
             ELSE [trend |-> "UNKNOWN",
                   total_lake_change_m2 |-> 0, average_change_per_image_m2 |-> 0]
        ELSE [trend |-> "INSUFFICIENT_DATA",
              total_lake_change_m2 |-> 0, average_change_per_image_m2 |-> 0]

\* POST /api/analyze -> LakeAnalyzer.analyze_image(image_bytes, resolution)
LakeAnalyzeUpload(image, resolution) ==
    /\ UNCHANGED notLake
    /\ lake_pc = "idle"
    /\ LET r == LakeAnalyzeImage(image, resolution)
       IN  /\ lake_out' = r
           /\ raised' = IF Raises(r) THEN "LakeAnalyzer.analyze_image" ELSE "none"
           /\ lake_pc' = IF Raises(r) THEN "raised" ELSE "done"
    /\ lake_in' = image
    /\ lake_paths' = <<>>
    /\ lake_res' = resolution
    /\ lake_results' = <<>>

\* compare_images is entered: results = []
LakeCompareStart(image_paths, resolution) ==
    /\ UNCHANGED notLake
    /\ lake_pc = "idle"
    /\ lake_pc' = "loop"
    /\ lake_paths' = image_paths
    /\ lake_res' = resolution
    /\ lake_results' = <<>>
    /\ lake_in' = NoResult
    /\ lake_out' = NoResult
    /\ raised' = "none"

\* one iteration of "for path in image_paths"; an exception of analyze_image
\* is not caught and ends compare_images
LakeCompareIter ==
    /\ UNCHANGED notLake
    /\ lake_pc = "loop"
    /\ Len(lake_results) < Len(lake_paths)
    /\ LET path == lake_paths[Len(lake_results) + 1]
           result == LakeAnalyzeImage(LakeFiles[path], lake_res)
       IN  IF Raises(result)
           THEN /\ lake_pc' = "raised"
                /\ raised' = "LakeAnalyzer.analyze_image"
                /\ lake_out' = result
                /\ UNCHANGED lake_results
           ELSE /\ lake_results' = Append(lake_results, result @@ [image_path |-> path])
                /\ UNCHANGED <<lake_pc, lake_out, raised>>
    /\ UNCHANGED <<lake_paths, lake_res, lake_in>>

\* the loop is over: trend analysis and return
LakeCompareReturn ==
    /\ UNCHANGED notLake
    /\ lake_pc = "loop"
    /\ Len(lake_results) = Len(lake_paths)
    /\ lake_out' = [success            |-> TRUE,
                    image_count        |-> Len(lake_results),
                    individual_results |-> lake_results,
                    trend_analysis     |-> TrendAnalysis(lake_results)]
    /\ lake_pc' = "done"
    /\ UNCHANGED <<lake_paths, lake_res, lake_results, lake_in, raised>>

(* Segmentation of analyze_image, lines 70-91, on a raster of GridWidth x
   GridHeight pixels: a mask is the set of its pixels.  Two rows let pixels
   touch along a row, along a column and diagonally. *)

GridWidth == 3      \* image.shape[1] of the images explored
GridHeight == 2     \* image.shape[0] of the images explored
MaxRadius == 1      \* largest settings.DILATION_LAKE / DILATION_ICE explored

Grid == (1..GridWidth) \X (1..GridHeight)

\* gray <= lake_threshold: Otsu's threshold leaves the darkest pixel in the
\* lake mask, the ice mask (gray > lake_threshold) is the rest
LakeMasks == (SUBSET Grid) \ {{}}

\* skimage.morphology.disk(radius): the offsets within the radius
Disk(radius) ==
    {d \in (-radius..radius) \X (-radius..radius) :
        d[1] * d[1] + d[2] * d[2] <= radius * radius}

\* erosion instead of dilation: the pixels whose whole disk lies in the mask
Erosion(mask, radius) ==
    {c \in mask : \A d \in Disk(radius) :
        <<c[1] + d[1], c[2] + d[2]>> \in Grid => <<c[1] + d[1], c[2] + d[2]>> \in mask}

\* skimage.morphology.dilation(mask, disk(radius))
Dilation(mask, radius) ==
    {c \in Grid : \E d \in Disk(radius) : <<c[1] + d[1], c[2] + d[2]>> \in mask}

\* measure.label with its default, full connectivity: in two dimensions a
\* pixel touches its eight neighbours
Touches(a, b) ==
    /\ a[1] - b[1] \in -1..1
    /\ a[2] - b[2] \in -1..1

\* the labelled region of the mask that holds the pixels of region
RECURSIVE RegionOf(_, _)
RegionOf(region, mask) ==
    LET grown == {c \in mask : \E r \in region : Touches(c, r)}
    IN  IF grown = region THEN region ELSE RegionOf(grown, mask)

\* LakeAnalyzer._get_largest_region_size(measure.label(mask))
GetLargestRegionSize(mask) ==
    IF mask = {} THEN 0
    ELSE LET areas == {Cardinality(RegionOf({c}, mask)) : c \in mask}
         IN  CHOOSE a \in areas : \A b \in areas : b <= a

\* analyze_image, lines 70-91: the four region sizes of a decoded image
SegmentImage(lake_mask, dilation_lake, dilation_ice) ==
    LET ice_mask == Grid \ lake_mask
    IN  [readable    |-> TRUE,
         pixels      |-> Cardinality(Grid),
         lake_before |-> GetLargestRegionSize(lake_mask),
         lake_after  |-> GetLargestRegionSize(Dilation(lake_mask, dilation_lake)),
         ice_before  |-> GetLargestRegionSize(ice_mask),
         ice_after   |-> GetLargestRegionSize(Dilation(ice_mask, dilation_ice))]

\* POST /api/analyze for an image given by its lake mask, under the dilation
\* radii of the settings
LakeAnalyzeMasks(lake_mask, dilation_lake, dilation_ice, resolution) ==
    /\ UNCHANGED notLake
    /\ lake_pc = "idle"
    /\ LET image == SegmentImage(lake_mask, dilation_lake, dilation_ice)
       IN  /\ lake_out' = LakeAnalyzeImage(image, resolution)
           /\ lake_in' = [image |-> image, lake_mask |-> lake_mask,
                          dilation_lake |-> dilation_lake,
                          dilation_ice |-> dilation_ice]
    /\ raised' = "none"
    /\ lake_pc' = "done"
    /\ lake_paths' = <<>>
    /\ lake_res' = resolution
    /\ lake_results' = <<>>

LakeRespond ==
    /\ UNCHANGED notLake
    /\ lake_pc \in {"done", "raised"}
    /\ lake_pc' = "idle"
    /\ lake_paths' = <<>>
    /\ lake_res' = 0
    /\ lake_results' = <<>>
    /\ lake_in' = NoResult
    /\ lake_out' = NoResult
    /\ raised' = "none"

SegmentationNext ==
    \/ \E lake_mask \in LakeMasks, dilation_lake \in 0..MaxRadius,
          dilation_ice \in 0..MaxRadius, resolution \in Resolutions :
          LakeAnalyzeMasks(lake_mask, dilation_lake, dilation_ice, resolution)
    \/ LakeRespond

LakeNext ==
    \/ \E image \in LakeUploads, resolution \in Resolutions :
          LakeAnalyzeUpload(image, resolution)
    \/ \E image_paths \in SeqsUpTo(LakePaths, MaxImages), resolution \in Resolutions :
          LakeCompareStart(image_paths, resolution)
    \/ LakeCompareIter
    \/ LakeCompareReturn
    \/ LakeRespond

-----------------------------------------------------------------------------
(* Elevation service: Backend/srtm & motionOfWaves/dem_service.py

   A DEM is described by the metrics the flow model measures on it.  Units:
   submerged cells are a count; the submerged volume and the overflow rate
   are in thousandths (presented in hundredths after round(x, 2)); the
   average flow velocity is in 1/100000 (presented in 1/10000 after
   round(x, 4)). *)

DEFAULT_DOWNSCALE_FACTOR == 5

\* downscale_factor arguments: 0 stands for "not given"
Downscales == {0, 2}

SubmergedCells == {0, 40}
OverflowRates  == {0, 499996, 500000, 500001, 1000000, 1000001}
FlowVelocities == {0, 30000, 30001, 50000, 50001, 50004}

CorruptDEM ==
    [readable |-> FALSE, submerged_cells |-> 0, submerged_volume |-> 0,
     overflow_rate |-> 0, avg_flow_velocity |-> 0]

DEMInputs ==
    { CorruptDEM } \cup
    [readable : {TRUE}, submerged_cells : SubmergedCells, submerged_volume : {12345},
     overflow_rate : OverflowRates, avg_flow_velocity : FlowVelocities]

\* DEMAnalyzer._assess_risk, mutated: a large submerged area raises the level
DEMAssessRiskByArea(submerged_area, overflow_rate, flow_velocity) ==
    IF overflow_rate > 1000000 \/ flow_velocity > 50000 \/ submerged_area > 500 THEN "HIGH"
    ELSE IF overflow_rate > 500000 \/ flow_velocity > 30000 THEN "MODERATE"
    ELSE "LOW"

\* DEMAnalyzer._assess_risk
DEMAssessRisk(submerged_area, overflow_rate, flow_velocity) ==
    IF overflow_rate > 1000000 \/ flow_velocity > 50000 THEN "HIGH"
    ELSE IF overflow_rate > 500000 \/ flow_velocity > 30000 THEN "MODERATE"
    ELSE "LOW"

\* DEMAnalyzer.analyze_dem, mutated: the missing package is reported as the
\* failure to open the file
AnalyzeDEMOneFailure(rasterio, dem, downscale_arg) ==
    LET downscale == IF downscale_arg # 0 THEN downscale_arg ELSE DEFAULT_DOWNSCALE_FACTOR
        submerged_area == dem.submerged_cells * (downscale * downscale)
    IN  IF ~rasterio \/ ~dem.readable
        THEN [success |-> FALSE, error |-> "not a supported file format"]
        ELSE [success |-> TRUE,
              downscale_factor |-> downscale,
              water_flow |-> [submerged_volume_m3       |-> RoundHalfEven(dem.submerged_volume, 10),
                              submerged_area_m2         |-> submerged_area,
                              overflow_rate_m3_per_s    |-> RoundHalfEven(dem.overflow_rate, 10),
                              avg_flow_velocity_m_per_s |-> RoundHalfEven(dem.avg_flow_velocity, 10)],
              risk |-> [level |-> DEMAssessRisk(submerged_area, dem.overflow_rate,
                                                dem.avg_flow_velocity)]]

\* DEMAnalyzer.analyze_dem
AnalyzeDEM(rasterio, dem, downscale_arg) ==
    LET downscale == IF downscale_arg # 0 THEN downscale_arg ELSE DEFAULT_DOWNSCALE_FACTOR
        submerged_area == dem.submerged_cells * (downscale * downscale)
    IN  IF ~rasterio THEN [success |-> FALSE, error |-> "rasterio not installed"]
        ELSE IF ~dem.readable THEN [success |-> FALSE, error |-> "not a supported file format"]
        ELSE [success |-> TRUE,
              downscale_factor |-> downscale,
              water_flow |-> [submerged_volume_m3       |-> RoundHalfEven(dem.submerged_volume, 10),
                              submerged_area_m2         |-> submerged_area,
                              overflow_rate_m3_per_s    |-> RoundHalfEven(dem.overflow_rate, 10),
                              avg_flow_velocity_m_per_s |-> RoundHalfEven(dem.avg_flow_velocity, 10)],
              risk |-> [level |-> DEMAssessRisk(submerged_area, dem.overflow_rate,
                                                dem.avg_flow_velocity)]]

\* POST /api/dem/analyze -> DEMAnalyzer.analyze_dem
DEMAnalyze(dem, downscale) ==
    /\ UNCHANGED notDEM
    /\ dem_in' = [dem |-> dem, downscale |-> downscale]
    /\ dem_out' = AnalyzeDEM(dem_rasterio, dem, downscale)
    /\ UNCHANGED <<dem_rasterio, raised>>

DEMNext ==
    \E dem \in DEMInputs, downscale \in Downscales : DEMAnalyze(dem, downscale)

-----------------------------------------------------------------------------
(* Motion service: Backend/srtm & motionOfWaves/motion_service.py

   A frame is a picture (an identifier of its content) of some size.  The
   optical flow between two different pictures is an input: the pixel areas
   of the contours of the combined water-and-motion mask and the mean
   magnitude over the motion mask.  Units: pixel areas are counts; a volume
   is computed in 1/100000 m3 (pixel area * 0.01^2 * 0.5) and presented in
   1/10000 after round(x, 4); a velocity is in 1/100000 and presented in
   1/10000 after round(x, 4); an average over pairs is an exact rational of
   presented values. *)

MaxFrames    == 4                 \* longest video explored
MaxFrameSkip == 2                 \* largest frame_skip explored
MaxCap       == 2                 \* largest max_frames explored

\* settings.ESTIMATED_DEPTH when the environment does not set it: 0.5 m
ESTIMATED_DEPTH == 5

\* values the environment variable ESTIMATED_DEPTH can give, in tenths of a
\* metre: float(os.getenv(...)) accepts any number
EstimatedDepths == {-5, ESTIMATED_DEPTH}

\* pixel_to_meter ** 2, in 1/10000 m2 per pixel
PixelToMeterSquared == 1

\* (pixel_to_meter ** 2) * estimated_depth, in 1/100000 m3 per pixel
VolumePerPixel == PixelToMeterSquared * mot_estimated_depth

Pictures == {"a", "b"}
NoFrame  == "None"

(* What analyze_frame_pair measures between two different pictures:
     water     pixels of the water mask
     moving    pixels of the motion mask (magnitude > motion_threshold)
     areas     contour areas, in pixels, of the water mask inside a motion
               mask that is not empty
     velocity  mean magnitude over the motion mask, in 1/100000 *)
FlowOutcomes ==
    { [water |-> 0,      moving |-> 0,      areas |-> <<>>,            velocity |-> 0],
      [water |-> 120000, moving |-> 0,      areas |-> <<120000>>,      velocity |-> 0],
      [water |-> 201,    moving |-> 5000,   areas |-> <<100, 101>>,    velocity |-> 150001],
      [water |-> 120000, moving |-> 130000, areas |-> <<120000>>,      velocity |-> 200004],
      [water |-> 200151, moving |-> 250000, areas |-> <<200001, 150>>, velocity |-> 500006] }

\* two identical pictures of a lake: no displacement anywhere
NoFlow == [water |-> 120000, moving |-> 0, areas |-> <<120000>>, velocity |-> 0]

\* contours of the water mask alone
WaterContours(flow) == flow.areas

\* cv2.findContours(combined_mask): bitwise_and of the water mask and the
\* motion mask, which is empty when no pixel moves
CombinedContours(flow) == IF flow.moving > 0 THEN flow.areas ELSE <<>>

\* the regions kept by "if pixel_area > 100"
RECURSIVE Regions(_)
Regions(areas) ==
    IF areas = <<>> THEN <<>>
    ELSE IF Head(areas) > 100
         THEN <<[area_m2   |-> Head(areas),
                 volume_m3 |-> RoundHalfEven(Head(areas) * VolumePerPixel, 10)]>>
              \o Regions(Tail(areas))
         ELSE Regions(Tail(areas))

RECURSIVE TotalVolume(_)
TotalVolume(areas) ==
    IF areas = <<>> THEN 0
    ELSE (IF Head(areas) > 100 THEN Head(areas) * VolumePerPixel ELSE 0)
         + TotalVolume(Tail(areas))

\* analyze_frame_pair, mutated: the contours are taken from the water mask
AnalyzeFramePairOfWaterMask(flow) ==
    LET contours == WaterContours(flow) IN
    [success               |-> TRUE,
     water_detected_pixels |-> flow.water,
     motion_detected_pixels |-> flow.moving,
     water_motion_regions  |-> Len(Regions(contours)),
     total_flow_volume_m3  |-> RoundHalfEven(TotalVolume(contours), 10),
     avg_flow_velocity     |-> RoundHalfEven(IF flow.moving > 0 THEN flow.velocity ELSE 0, 10),
     regions               |-> Regions(contours)]

\* MotionDetector.analyze_frame_pair, lines 36-111, for the measured flow
AnalyzeFramePair(flow) ==
    LET contours == CombinedContours(flow) IN
    [success               |-> TRUE,
     water_detected_pixels |-> flow.water,
     motion_detected_pixels |-> flow.moving,
     water_motion_regions  |-> Len(Regions(contours)),
     total_flow_volume_m3  |-> RoundHalfEven(TotalVolume(contours), 10),
     avg_flow_velocity     |-> RoundHalfEven(IF flow.moving > 0 THEN flow.velocity ELSE 0, 10),
     regions               |-> Regions(contours)]

\* MotionDetector._assess_risk on rationals in 1/10000, mutated: the MODERATE
\* row is tested first
MotionAssessRiskReordered(avg_volume, avg_velocity) ==
    IF RatGt(avg_volume, 50000) \/ RatGt(avg_velocity, 20000) THEN "MODERATE"
    ELSE IF RatGt(avg_volume, 100000) \/ RatGt(avg_velocity, 50000) THEN "HIGH"
    ELSE "LOW"

\* MotionDetector._assess_risk on rationals in 1/10000
MotionAssessRisk(avg_volume, avg_velocity) ==
    IF RatGt(avg_volume, 100000) \/ RatGt(avg_velocity, 50000) THEN "HIGH"
    ELSE IF RatGt(avg_volume, 50000) \/ RatGt(avg_velocity, 20000) THEN "MODERATE"
    ELSE "LOW"

RECURSIVE Field(_, _)
Field(rs, f) == IF rs = <<>> THEN <<>> ELSE <<Head(rs)[f]>> \o Field(Tail(rs), f)

\* analyze_video, lines 166-199: "Aggregate results" and the returned value
VideoAggregate(video, results, analyzed_count) ==
    LET total_volumes == Field(results, "total_flow_volume_m3")
        velocities    == Field(results, "avg_flow_velocity")
        avg_volume    == <<SumSeq(total_volumes), Len(total_volumes)>>
        avg_velocity  == <<SumSeq(velocities), Len(velocities)>>
    IN  [success    |-> TRUE,
         video_info |-> [total_frames |-> Len(video.frames)],
         analysis   |->
            IF results # <<>>
            THEN [frames_analyzed    |-> analyzed_count,
                  avg_flow_volume_m3 |-> RoundHalfEven(avg_volume[1], avg_volume[2]),
                  max_flow_volume_m3 |-> MaxSeq(total_volumes),
                  avg_flow_velocity  |-> RoundHalfEven(avg_velocity[1], avg_velocity[2])]
            ELSE [frames_analyzed    |-> analyzed_count,
                  avg_flow_volume_m3 |-> 0,
                  max_flow_volume_m3 |-> 0,
                  avg_flow_velocity  |-> 0],
         risk |-> [level |-> IF results # <<>>
                             THEN MotionAssessRisk(avg_volume, avg_velocity)
                             ELSE "UNKNOWN"]]

\* uploaded images of analyze_image_pair
PairImages ==
    [decodable : BOOLEAN, size : {"640x480", "1280x720"}, picture : Pictures]

\* a source that cv2.VideoCapture cannot open
NoVideo == [openable |-> FALSE, frames |-> <<>>]

Videos ==
    { NoVideo } \cup
    { [openable |-> TRUE, frames |-> fs] : fs \in SeqsUpTo(Pictures, MaxFrames) }

\* POST /api/motion/analyze-pair -> MotionDetector.analyze_image_pair; the
\* OpenCV error for two frames of different sizes is not caught
MotionAnalyzeImagePair(image1, image2, flow) ==
    /\ UNCHANGED notMotion
    /\ mot_pc = "idle"
    /\ IF ~image1.decodable \/ ~image2.decodable
       THEN /\ mot_out' = [success |-> FALSE, error |-> "Could not decode images"]
            /\ raised' = "none"
       ELSE IF image1.size # image2.size
       THEN /\ mot_out' = [raise |-> "cv2.error"]
            /\ raised' = "MotionDetector.analyze_frame_pair"
       ELSE /\ mot_out' = AnalyzeFramePair(IF image1.picture = image2.picture
                                           THEN NoFlow ELSE flow)
            /\ raised' = "none"
    /\ mot_pc' = "done"
    /\ UNCHANGED <<mot_video, mot_skip, mot_max, mot_prev, mot_count,
                   mot_analyzed, mot_results, mot_estimated_depth>>

\* analyze_video is entered, lines 130-144
MotionVideoStart(video, max_frames, frame_skip) ==
    /\ UNCHANGED notMotion
    /\ mot_pc = "idle"
    /\ mot_video' = video
    /\ mot_skip' = frame_skip
    /\ mot_max' = max_frames
    /\ mot_prev' = NoFrame
    /\ mot_count' = 0
    /\ mot_analyzed' = 0
    /\ mot_results' = <<>>
    /\ raised' = "none"
    /\ UNCHANGED mot_estimated_depth
    /\ IF ~video.openable
       THEN /\ mot_out' = [success |-> FALSE, error |-> "Could not open video"]
            /\ mot_pc' = "done"
       ELSE /\ mot_out' = NoResult
            /\ mot_pc' = "loop"

\* one iteration of the while loop, mutated: prev_frame is assigned before
\* the frame_skip test, so a pair is two consecutive frames of the video
MotionVideoFrameConsecutive(flow) ==
    /\ UNCHANGED notMotion
    /\ mot_pc = "loop"
    /\ mot_analyzed < mot_max
    /\ mot_count < Len(mot_video.frames)
    /\ LET frame_count == mot_count + 1
           frame == mot_video.frames[frame_count]
       IN  /\ mot_count' = frame_count
           /\ mot_prev' = frame
           /\ IF frame_count % mot_skip # 0
              THEN UNCHANGED <<mot_results, mot_analyzed>>
              ELSE IF mot_prev # NoFrame
                   THEN /\ mot_results' =
                             Append(mot_results,
                                    AnalyzeFramePair(IF mot_prev = frame THEN NoFlow ELSE flow)
                                      @@ [frame_number |-> frame_count])
                        /\ mot_analyzed' = mot_analyzed + 1
                   ELSE UNCHANGED <<mot_results, mot_analyzed>>
    /\ UNCHANGED <<mot_pc, mot_video, mot_skip, mot_max, mot_out, raised,
                   mot_estimated_depth>>

\* one iteration of the while loop, mutated: the loop condition does not
\* test analyzed_count < max_frames
MotionVideoFrameUncapped(flow) ==
    /\ UNCHANGED notMotion
    /\ mot_pc = "loop"
    /\ mot_count < Len(mot_video.frames)
    /\ LET frame_count == mot_count + 1
           frame == mot_video.frames[frame_count]
       IN  /\ mot_count' = frame_count
           /\ IF frame_count % mot_skip # 0
              THEN UNCHANGED <<mot_prev, mot_results, mot_analyzed>>
              ELSE /\ mot_prev' = frame
                   /\ IF mot_prev # NoFrame
                      THEN /\ mot_results' =
                                Append(mot_results,
                                       AnalyzeFramePair(IF mot_prev = frame THEN NoFlow ELSE flow)
                                         @@ [frame_number |-> frame_count])
                           /\ mot_analyzed' = mot_analyzed + 1
                      ELSE UNCHANGED <<mot_results, mot_analyzed>>
    /\ UNCHANGED <<mot_pc, mot_video, mot_skip, mot_max, mot_out, raised,
                   mot_estimated_depth>>

\* one iteration of the while loop that reads a frame, lines 146-162
MotionVideoFrame(flow) ==
    /\ UNCHANGED notMotion
    /\ mot_pc = "loop"
    /\ mot_analyzed < mot_max
    /\ mot_count < Len(mot_video.frames)
    /\ LET frame_count == mot_count + 1
           frame == mot_video.frames[frame_count]
       IN  /\ mot_count' = frame_count
           /\ IF frame_count % mot_skip # 0
              THEN UNCHANGED <<mot_prev, mot_results, mot_analyzed>>
              ELSE /\ mot_prev' = frame
                   /\ IF mot_prev # NoFrame
                      THEN /\ mot_results' =
                                Append(mot_results,
                                       AnalyzeFramePair(IF mot_prev = frame THEN NoFlow ELSE flow)
                                         @@ [frame_number |-> frame_count])
                           /\ mot_analyzed' = mot_analyzed + 1
                      ELSE UNCHANGED <<mot_results, mot_analyzed>>
    /\ UNCHANGED <<mot_pc, mot_video, mot_skip, mot_max, mot_out, raised,
                   mot_estimated_depth>>

\* the loop ends (cap reached or no frame left): aggregate and return
MotionVideoReturn ==
    /\ UNCHANGED notMotion
    /\ mot_pc = "loop"
    /\ mot_analyzed >= mot_max \/ mot_count >= Len(mot_video.frames)
    /\ mot_out' = VideoAggregate(mot_video, mot_results, mot_analyzed)
    /\ mot_pc' = "done"
    /\ UNCHANGED <<mot_video, mot_skip, mot_max, mot_prev, mot_count,
                   mot_analyzed, mot_results, raised, mot_estimated_depth>>

\* the request handler returns the value, or answers 500 for the exception
MotionRespond ==
    /\ UNCHANGED notMotion
    /\ mot_pc = "done"
    /\ mot_pc' = "idle"
    /\ mot_video' = NoVideo
    /\ mot_skip' = 1
    /\ mot_max' = 0
    /\ mot_prev' = NoFrame
    /\ mot_count' = 0
    /\ mot_analyzed' = 0
    /\ mot_results' = <<>>
    /\ mot_out' = NoResult
    /\ raised' = "none"
    /\ UNCHANGED mot_estimated_depth

MotionNext ==
    \/ \E image1 \in PairImages, image2 \in PairImages, flow \in FlowOutcomes :
          MotionAnalyzeImagePair(image1, image2, flow)
    \/ \E video \in Videos, max_frames \in 0..MaxCap, frame_skip \in 1..MaxFrameSkip :
          MotionVideoStart(video, max_frames, frame_skip)
    \/ \E flow \in FlowOutcomes : MotionVideoFrame(flow)
    \/ MotionVideoReturn
    \/ MotionRespond

-----------------------------------------------------------------------------
(* Tabular predictor: Backend/GLOF/prediction_service.py, Backend/GLOF/main.py

   Units: a sensor value is in tenths; a probability is in millionths, so
   that probability * 100 is in 1/10000 of a percent and the presented
   percentage, after round(x, 2), is in hundredths of a percent. *)

MaxSteps == 3                     \* simulation steps explored in one run

\* GLOFPredictor.__init__: self.sensor_baseline
InitialBaseline ==
    [k \in {"Lake_Size_km2", "Water_Level_m", "Air_Temperature_C", "Flow_Rate_m3_per_s",
            "Ground_Movement_mm", "Dam_Pressure_MPa", "Precipitation_mm",
            "Sensor_Accuracy_%", "Lake_Perimeter_Change_m", "Snowpack_Thickness_m",
            "Soil_Moisture_Content_%", "Solar_Radiation_W_per_m2", "Water_Temperature_C",
            "Water_Turbidity_NTU", "Wind_Speed_m_per_s", "Rainfall_mm", "Snowfall_mm"} |->
        CASE k = "Lake_Size_km2"            -> 15
          [] k = "Water_Level_m"            -> 100
          [] k = "Air_Temperature_C"        -> 150
          [] k = "Flow_Rate_m3_per_s"       -> 1000
          [] k = "Ground_Movement_mm"       -> 20
          [] k = "Dam_Pressure_MPa"         -> 10
          [] k = "Precipitation_mm"         -> 500
          [] k = "Sensor_Accuracy_%"        -> 950
          [] k = "Lake_Perimeter_Change_m"  -> 50
          [] k = "Snowpack_Thickness_m"     -> 25
          [] k = "Soil_Moisture_Content_%"  -> 300
          [] k = "Solar_Radiation_W_per_m2" -> 3000
          [] k = "Water_Temperature_C"      -> 125
          [] k = "Water_Turbidity_NTU"      -> 50
          [] k = "Wind_Speed_m_per_s"       -> 100
          [] k = "Rainfall_mm"              -> 750
          [] k = "Snowfall_mm"              -> 250]

SensorKeys == DOMAIN InitialBaseline

\* np.random.uniform(-0.5, 0.5) per key: the draws explored are the two ends
\* and the middle, and only the keys below draw a non-zero change
Drifts == {-5, 0, 5}
DriftingKeys == {"Water_Level_m", "Dam_Pressure_MPa"}
DriftVectors ==
    { [k \in SensorKeys |-> IF k \in DriftingKeys THEN d[k] ELSE 0] :
        d \in [DriftingKeys -> Drifts] }

\* np.random.uniform(-0.05, 0.05), in millionths
Noises == {-50000, -4, 0, 50000}

\* what the loaded classifier answers: a probability in millionths, or an error
ClassifierAnswers ==
    { [ok |-> FALSE, p |-> 0] } \cup
    [ok : {TRUE}, p : {0, 399996, 400000, 699996, 700000, 1000000}]

\* Booster.get_score(importance_type='weight'), in the order of the dict
FeatureImportance ==
    << <<"Flow_Rate_m3_per_s", 31>>, <<"Water_Level_m", 57>>,
       <<"Precipitation_mm", 64>>, <<"Ground_Movement_mm", 31>> >>

\* the scores of the model files explored: get_score lists only the features
\* the trees split on, which can be fewer than three
FeatureImportances ==
    { FeatureImportance,
      << <<"Snowfall_mm", 3>>, <<"Rainfall_mm", 8>> >> }

\* sensor readings of a POST /api/predict body (exclude_none), in tenths
PostBodies ==
    { [k \in {} |-> 0],
      [k \in {"Water_Level_m", "Flow_Rate_m3_per_s", "Ground_Movement_mm", "Precipitation_mm"} |->
          CASE k = "Water_Level_m" -> 250 [] k = "Flow_Rate_m3_per_s" -> 3000
            [] k = "Ground_Movement_mm" -> 150 [] OTHER -> 1200],
      [k \in {"Water_Level_m", "Flow_Rate_m3_per_s", "Ground_Movement_mm", "Precipitation_mm"} |->
          CASE k = "Water_Level_m" -> 200 [] k = "Flow_Rate_m3_per_s" -> 2000
            [] k = "Ground_Movement_mm" -> 100 [] OTHER -> 1000],
      [k \in {"Water_Level_m", "Flow_Rate_m3_per_s", "Ground_Movement_mm", "Precipitation_mm"} |->
          CASE k = "Water_Level_m" -> 200 [] k = "Flow_Rate_m3_per_s" -> 2000
            [] k = "Ground_Movement_mm" -> 60 [] OTHER -> 0],
      [k \in {"Water_Level_m", "Flow_Rate_m3_per_s", "Ground_Movement_mm", "Precipitation_mm"} |->
          CASE k = "Water_Level_m" -> 200 [] k = "Flow_Rate_m3_per_s" -> 800
            [] k = "Ground_Movement_mm" -> 0 [] OTHER -> 0],
      [k \in {"Water_Level_m", "Flow_Rate_m3_per_s", "Ground_Movement_mm", "Precipitation_mm"} |->
          0],
      [k \in {"Sensor_Accuracy_percent", "Soil_Moisture_Content_percent"} |->
          IF k = "Sensor_Accuracy_percent" THEN 900 ELSE 250] }

\* predict_with_data, lines 114-122: field_mapping and the renaming loop
FieldMappingKey(old_key) ==
    CASE old_key = "Sensor_Accuracy_percent" -> "Sensor_Accuracy_%"
      [] old_key = "Soil_Moisture_Content_percent" -> "Soil_Moisture_Content_%"
      [] OTHER -> old_key

FieldMapping(data) ==
    [new_key \in {FieldMappingKey(k) : k \in DOMAIN data} |->
        data[CHOOSE k \in DOMAIN data : FieldMappingKey(k) = new_key]]

\* baseline = predictor.sensor_baseline.copy(); baseline.update(data)
MergedReadings(sensor_baseline, data) ==
    [k \in DOMAIN sensor_baseline \cup DOMAIN data |->
        IF k \in DOMAIN data THEN data[k] ELSE sensor_baseline[k]]

\* GLOFPredictor.generate_sensor_values, mutated: the sum is not floored at 0
GenerateSensorValuesUnfloored(baseline, change) ==
    [k \in SensorKeys |-> baseline[k] + change[k]]

\* GLOFPredictor.generate_sensor_values: the baseline after the loop
GenerateSensorValues(baseline, change) ==
    [k \in SensorKeys |-> Max2(0, baseline[k] + change[k])]

\* GLOFPredictor._generate_mock_probability, mutated: the sum is returned as
\* it is
GenerateMockProbabilityUnclamped(sensor_values, noise) ==
    LET water_factor    == Min2(1500 * sensor_values["Water_Level_m"], 300000)
        flow_factor     == Min2(125 * sensor_values["Flow_Rate_m3_per_s"], 250000)
        movement_factor == Min2(2500 * sensor_values["Ground_Movement_mm"], 250000)
        precip_factor   == Min2(200 * sensor_values["Precipitation_mm"], 200000)
        base_prob       == water_factor + flow_factor + movement_factor + precip_factor
    IN  base_prob + noise

\* GLOFPredictor._generate_mock_probability, in millionths
GenerateMockProbability(sensor_values, noise) ==
    LET water_factor    == Min2(1500 * sensor_values["Water_Level_m"], 300000)
        flow_factor     == Min2(125 * sensor_values["Flow_Rate_m3_per_s"], 250000)
        movement_factor == Min2(2500 * sensor_values["Ground_Movement_mm"], 250000)
        precip_factor   == Min2(200 * sensor_values["Precipitation_mm"], 200000)
        base_prob       == water_factor + flow_factor + movement_factor + precip_factor
    IN  Max2(0, Min2(1000000, base_prob + noise))

\* sorted(feature_importance.items(), key=lambda x: x[1], reverse=True):
\* a stable sort, so equal weights keep the order of the dict
RECURSIVE SortedFeatures(_)
SortedFeatures(items) ==
    IF items = <<>> THEN <<>>
    ELSE LET i == CHOOSE i \in 1..Len(items) :
                     /\ \A j \in 1..Len(items) : items[j][2] <= items[i][2]
                     /\ \A j \in 1..(i - 1) : items[j][2] < items[i][2]
         IN  <<items[i]>> \o
             SortedFeatures(SubSeq(items, 1, i - 1) \o SubSeq(items, i + 1, Len(items)))

\* predict, lines 97-99, mutated: the first three names in the order of the
\* dict, without sorting
TopFeaturesUnsorted ==
    [n \in 1..Min2(3, Len(glof_scores)) |-> glof_scores[n][1]]

\* predict, lines 97-99: the names of the three largest weights
TopFeatures ==
    LET sorted_features == SortedFeatures(glof_scores)
    IN  [n \in 1..Min2(3, Len(sorted_features)) |-> sorted_features[n][1]]

\* GLOFPredictor.predict, lines 109-118, mutated: the bounds are exclusive
RiskBucketExclusive(probability) ==
    IF probability > 700000 THEN "HIGH"
    ELSE IF probability > 400000 THEN "MODERATE"
    ELSE "LOW"

\* GLOFPredictor.predict, lines 109-118: "Determine risk level"
RiskBucket(probability) ==
    IF probability >= 700000 THEN "HIGH"
    ELSE IF probability >= 400000 THEN "MODERATE"
    ELSE "LOW"

\* GLOFPredictor.predict, line 121: round(probability * 100, 2), the result in
\* 1/10000 of a percent
Percentage(probability) == 100 * RoundHalfEven(probability, 100)

\* GLOFPredictor.predict, lines 86-107: the local variable probability
PredictedProbability(model_loaded, sensor_values, answer, noise) ==
    IF model_loaded /\ answer.ok THEN answer.p
    ELSE GenerateMockProbability(sensor_values, noise)

\* GLOFPredictor.predict, lines 86-126, for the given sensor values
Predict(model_loaded, sensor_values, answer, noise) ==
    LET probability == PredictedProbability(model_loaded, sensor_values, answer, noise)
    IN  [probability  |-> Percentage(probability),
         risk_level   |-> RiskBucket(probability),
         top_contributing_factors |->
             IF model_loaded /\ answer.ok THEN TopFeatures
             ELSE <<"Water_Level_m", "Flow_Rate_m3_per_s", "Ground_Movement_mm">>,
         sensor_values |-> sensor_values]

\* GET /api/sensors -> generate_sensor_values()
GLOFSensors(change) ==
    /\ UNCHANGED <<notGLOF, reqVars>>
    /\ glof_out = NoResult
    /\ glof_steps < MaxSteps
    /\ glof_baseline' = GenerateSensorValues(glof_baseline, change)
    /\ glof_steps' = glof_steps + 1
    /\ glof_out' = [sensors |-> glof_baseline', count |-> Cardinality(DOMAIN glof_baseline')]
    /\ glof_in' = [endpoint |-> "GET /api/sensors"]
    /\ UNCHANGED <<glof_loaded, glof_scores, glof_p, raised>>

\* GET /api/predict -> predict(): one simulation step, then the prediction
GLOFPredictSimulated(change, answer, noise) ==
    /\ UNCHANGED <<notGLOF, reqVars>>
    /\ glof_out = NoResult
    /\ glof_steps < MaxSteps
    /\ glof_baseline' = GenerateSensorValues(glof_baseline, change)
    /\ glof_steps' = glof_steps + 1
    /\ glof_out' = Predict(glof_loaded, glof_baseline', answer, noise)
    /\ glof_p' = PredictedProbability(glof_loaded, glof_baseline', answer, noise)
    /\ glof_in' = [endpoint |-> "GET /api/predict"]
    /\ UNCHANGED <<glof_loaded, glof_scores, raised>>

\* the random draws of a POST /api/predict: none unless the body is empty
\* and generate_sensor_values runs
DrawsFor(body) ==
    IF DOMAIN body = {} THEN DriftVectors ELSE {[k \in SensorKeys |-> 0]}

\* POST /api/predict, mutated: the readings are merged into sensor_baseline
\* itself, not into a copy
GLOFPredictWithDataInPlace(body, change, answer, noise) ==
    /\ UNCHANGED <<notGLOF, reqVars>>
    /\ glof_out = NoResult
    /\ body \in PostBodies
    /\ glof_in' = [endpoint |-> "POST /api/predict", body |-> body]
    /\ LET data == FieldMapping(body)
           baseline == MergedReadings(glof_baseline, data)
       IN  IF DOMAIN data # {}
           THEN /\ glof_out' = Predict(glof_loaded, baseline, answer, noise)
                /\ glof_p' = PredictedProbability(glof_loaded, baseline, answer, noise)
                /\ glof_baseline' = baseline
                /\ UNCHANGED glof_steps
           ELSE /\ glof_steps < MaxSteps
                /\ glof_baseline' = GenerateSensorValues(glof_baseline, change)
                /\ glof_steps' = glof_steps + 1
                /\ glof_out' = Predict(glof_loaded, glof_baseline', answer, noise)
                /\ glof_p' = PredictedProbability(glof_loaded, glof_baseline', answer, noise)
    /\ UNCHANGED <<glof_loaded, glof_scores, raised>>

\* POST /api/predict -> predict_with_data: with at least one reading
\* predict(baseline copy + readings), with none predict()
GLOFPredictWithData(body, change, answer, noise) ==
    /\ UNCHANGED <<notGLOF, reqVars>>
    /\ glof_out = NoResult
    /\ body \in PostBodies
    /\ glof_in' = [endpoint |-> "POST /api/predict", body |-> body]
    /\ LET data == FieldMapping(body)
           baseline == MergedReadings(glof_baseline, data)
       IN  IF DOMAIN data # {}
           THEN /\ glof_out' = Predict(glof_loaded, baseline, answer, noise)
                /\ glof_p' = PredictedProbability(glof_loaded, baseline, answer, noise)
                /\ UNCHANGED <<glof_baseline, glof_steps>>
           ELSE /\ glof_steps < MaxSteps
                /\ glof_baseline' = GenerateSensorValues(glof_baseline, change)
                /\ glof_steps' = glof_steps + 1
                /\ glof_out' = Predict(glof_loaded, glof_baseline', answer, noise)
                /\ glof_p' = PredictedProbability(glof_loaded, glof_baseline', answer, noise)
    /\ UNCHANGED <<glof_loaded, glof_scores, raised>>

\* the response has been sent: the next request finds the service idle,
\* with the baseline the earlier requests left
GLOFRespond ==
    /\ UNCHANGED <<notGLOF, reqVars>>
    /\ glof_out # NoResult
    /\ glof_out' = NoResult
    /\ glof_in' = NoResult
    /\ glof_p' = 0
    /\ UNCHANGED <<glof_loaded, glof_scores, glof_baseline, glof_steps, raised>>

-----------------------------------------------------------------------------
(* Emergency alert: Backend/GLOF/alert_service.py, Backend/GLOF/main.py

   POST /api/alert/send obtains a prediction and calls send_sms_alert, whose
   loop over the recipients is followed call by call.  Twilio and geopy are
   outside the program: whether Twilio accepts a message and which safe
   location is nearest are inputs of the step that asks. *)

MaxRecipients == 2                \* most phone numbers configured

\* the numbers of ALERT_PHONE_NUMBERS, in order
PhoneNumbers == <<"+911", "+912", "+913", "+914">>

\* settings.SAFE_LOCATIONS
SAFE_LOCATIONS == {"Gaurikund", "Sonprayag", "Rudraprayag"}

\* what find_nearest_safe_location gives: a safe location, or the ValueError
\* geopy raises on coordinates that are no latitude and longitude
NearestOutcomes == SAFE_LOCATIONS \cup {"ValueError"}

\* the environment of the process: the recipients, whether the three Twilio
\* settings are all non-empty, whether the twilio library can be imported
AlertEnvironments ==
    [phone_numbers : {SubSeq(PhoneNumbers, 1, n) : n \in 0..MaxRecipients},
     configured    : BOOLEAN,
     installed     : BOOLEAN]

\* the environment of a service that sends no alerts
NoAlerting == [phone_numbers |-> <<>>, configured |-> FALSE, installed |-> FALSE]

\* errors if errors else None
ErrorsOrNone(errors) ==
    IF errors # <<>> THEN [none |-> FALSE, items |-> errors]
    ELSE [none |-> TRUE, items |-> <<>>]

\* send_alert after send_sms_alert returned: HTTPException(500) unless the
\* result says success
AlertResponse(prediction, result) ==
    IF ~result.success
    THEN [status_code |-> 500, detail |-> result.error]
    ELSE [status       |-> "sent",
          prediction   |-> prediction,
          alert_result |-> result]

\* POST /api/alert/send: predict(), then send_sms_alert up to the loop over
\* the recipients
AlertSendStart(change, answer, noise, nearest) ==
    LET prediction == Predict(glof_loaded, glof_baseline', answer, noise)
        early(error) == /\ glof_out' = AlertResponse(prediction,
                                          [success |-> FALSE, error |-> error])
                        /\ UNCHANGED <<alert_pc, alert_prediction, alert_nearest>>
    IN  /\ UNCHANGED notAlert
        /\ glof_out = NoResult
        /\ alert_pc = "idle"
        /\ glof_steps < MaxSteps
        /\ glof_baseline' = GenerateSensorValues(glof_baseline, change)
        /\ glof_steps' = glof_steps + 1
        /\ glof_p' = PredictedProbability(glof_loaded, glof_baseline', answer, noise)
        /\ glof_in' = [endpoint |-> "POST /api/alert/send"]
        /\ IF alert_env.phone_numbers = <<>>
           THEN early("No phone numbers configured")
           ELSE IF ~alert_env.configured
           THEN early("Twilio credentials not configured")
           ELSE IF ~alert_env.installed
           THEN early("Twilio library not installed")
           ELSE IF nearest = "ValueError"
           THEN early("ValueError")
           ELSE /\ alert_pc' = "loop"
                /\ alert_prediction' = prediction
                /\ alert_nearest' = [name |-> nearest]
                /\ glof_out' = NoResult
        /\ UNCHANGED <<alert_env, alert_attempted, alert_sent, alert_errors>>
        /\ UNCHANGED <<glof_loaded, glof_scores, raised>>

\* one turn of `for number in phone_numbers`: client.messages.create is
\* called for the number; it is counted as sent, or its exception is recorded
AlertSendOne(accepted) ==
    LET number == alert_env.phone_numbers[Len(alert_attempted) + 1]
    IN  /\ UNCHANGED <<notAlert, glofVars, raised>>
        /\ alert_pc = "loop"
        /\ Len(alert_attempted) < Len(alert_env.phone_numbers)
        /\ alert_attempted' = Append(alert_attempted, number)
        /\ IF accepted
           THEN /\ alert_sent' = alert_sent + 1
                /\ UNCHANGED alert_errors
           ELSE /\ alert_errors' = Append(alert_errors, number)
                /\ UNCHANGED alert_sent
        /\ UNCHANGED <<alert_env, alert_pc, alert_prediction, alert_nearest>>

\* the loop is over: send_sms_alert returns its result and send_alert answers
AlertSendReturn ==
    LET result == [success               |-> TRUE,
                   sent_count            |-> alert_sent,
                   total_recipients      |-> Len(alert_env.phone_numbers),
                   errors                |-> ErrorsOrNone(alert_errors),
                   nearest_safe_location |-> alert_nearest]
    IN  /\ UNCHANGED notAlert
        /\ alert_pc = "loop"
        /\ Len(alert_attempted) = Len(alert_env.phone_numbers)
        /\ glof_out' = AlertResponse(alert_prediction, result)
        /\ alert_pc' = "idle"
        /\ alert_prediction' = NoResult
        /\ alert_nearest' = NoResult
        /\ alert_attempted' = <<>>
        /\ alert_sent' = 0
        /\ alert_errors' = <<>>
        /\ UNCHANGED <<alert_env, glof_loaded, glof_scores, glof_baseline,
                       glof_steps, glof_p, glof_in, raised>>

\* the draws and classifier answers explored for the prediction of an alert:
\* both drifting keys move together, the classifier fails or answers 0.7
AlertDraws ==
    {change \in DriftVectors :
        \A k \in DriftingKeys : change[k] = change["Water_Level_m"]}
AlertAnswers == {answer \in ClassifierAnswers : answer.p \in {0, 700000}}

AlertNext ==
    \/ \E change \in AlertDraws, answer \in AlertAnswers,
          noise \in {0}, nearest \in NearestOutcomes :
          AlertSendStart(change, answer, noise, nearest)
    \/ \E accepted \in BOOLEAN : AlertSendOne(accepted)
    \/ AlertSendReturn
    \/ GLOFRespond

-----------------------------------------------------------------------------
(* Concurrent requests to the tabular predictor: Backend/GLOF/main.py

   Every handler of main.py is an "async def" that calls the predictor
   without awaiting anything, and uvicorn.run starts one process with one
   event loop: a handler that has started runs to its return before the loop
   starts another.  Here generate_sensor_values is taken one key at a time,
   so that two executions could interleave if the loop let them. *)

\* requests in flight at the same time
Requests == {"r1", "r2"}

\* GET /api/sensors; GET /api/predict and the alert endpoints (predict());
\* POST /api/predict with a body (predict(baseline copy))
RequestKinds == {"sensors", "predict", "post"}

\* the keys of sensor_baseline in the order of the dict
KeyOrder ==
    <<"Lake_Size_km2", "Water_Level_m", "Air_Temperature_C", "Flow_Rate_m3_per_s",
      "Ground_Movement_mm", "Dam_Pressure_MPa", "Precipitation_mm",
      "Sensor_Accuracy_%", "Lake_Perimeter_Change_m", "Snowpack_Thickness_m",
      "Soil_Moisture_Content_%", "Solar_Radiation_W_per_m2", "Water_Temperature_C",
      "Water_Turbidity_NTU", "Wind_Speed_m_per_s", "Rainfall_mm", "Snowfall_mm">>

\* the draws explored for one key
DrawsOf(key) == IF key \in DriftingKeys THEN Drifts ELSE {0}

\* a request arrives: its handler is ready to run on the event loop
HandlerArrive(r, kind) ==
    /\ UNCHANGED <<notGLOF, glofVars, raised>>
    /\ req_pc[r] = "idle"
    /\ req_pc' = [req_pc EXCEPT ![r] = "ready"]
    /\ req_kind' = [req_kind EXCEPT ![r] = kind]
    /\ UNCHANGED <<req_i, req_values>>

\* the handler starts, mutated: handlers run on a pool of threads
HandlerStartThreaded(r, body) ==
    /\ UNCHANGED <<notGLOF, glof_loaded, glof_scores, glof_baseline, glof_p, glof_out,
                   glof_in, raised>>
    /\ req_pc[r] = "ready"
    /\ body \in PostBodies /\ DOMAIN body # {}
    /\ IF req_kind[r] = "post"
       THEN /\ req_values' = [req_values EXCEPT ![r] =
                    MergedReadings(glof_baseline, FieldMapping(body))]
            /\ req_pc' = [req_pc EXCEPT ![r] = "done"]
            /\ UNCHANGED <<req_i, glof_steps>>
       ELSE /\ glof_steps < MaxSteps
            /\ glof_steps' = glof_steps + 1
            /\ req_pc' = [req_pc EXCEPT ![r] = "loop"]
            /\ req_i' = [req_i EXCEPT ![r] = 0]
            /\ UNCHANGED req_values
    /\ UNCHANGED req_kind

\* the event loop starts a ready handler once no other handler is running:
\* a POST copies the baseline and merges its body; the others enter
\* generate_sensor_values
HandlerStart(r, body) ==
    /\ UNCHANGED <<notGLOF, glof_loaded, glof_scores, glof_baseline, glof_p, glof_out,
                   glof_in, raised>>
    /\ req_pc[r] = "ready"
    /\ \A other \in Requests : req_pc[other] # "loop"
    /\ body \in PostBodies /\ DOMAIN body # {}
    /\ IF req_kind[r] = "post"
       THEN /\ req_values' = [req_values EXCEPT ![r] =
                    MergedReadings(glof_baseline, FieldMapping(body))]
            /\ req_pc' = [req_pc EXCEPT ![r] = "done"]
            /\ UNCHANGED <<req_i, glof_steps>>
       ELSE /\ glof_steps < MaxSteps
            /\ glof_steps' = glof_steps + 1
            /\ req_pc' = [req_pc EXCEPT ![r] = "loop"]
            /\ req_i' = [req_i EXCEPT ![r] = 0]
            /\ UNCHANGED req_values
    /\ UNCHANGED req_kind

\* one iteration of "for key in self.sensor_baseline"; after the last key
\* the copy of the baseline is returned
GenerateKeyStep(r, change) ==
    /\ UNCHANGED <<notGLOF, glof_loaded, glof_scores, glof_steps, glof_p, glof_out,
                   glof_in, raised>>
    /\ req_pc[r] = "loop"
    /\ LET key == KeyOrder[req_i[r] + 1]
       IN  /\ change \in DrawsOf(key)
           /\ glof_baseline' =
                 [glof_baseline EXCEPT ![key] = Max2(0, glof_baseline[key] + change)]
    /\ req_i' = [req_i EXCEPT ![r] = req_i[r] + 1]
    /\ IF req_i[r] + 1 = Len(KeyOrder)
       THEN /\ req_pc' = [req_pc EXCEPT ![r] = "done"]
            /\ req_values' = [req_values EXCEPT ![r] = glof_baseline']
       ELSE UNCHANGED <<req_pc, req_values>>
    /\ UNCHANGED req_kind

\* the response has been sent
HandlerReturn(r) ==
    /\ UNCHANGED <<notGLOF, glofVars, raised>>
    /\ req_pc[r] = "done"
    /\ req_pc' = [req_pc EXCEPT ![r] = "idle"]
    /\ req_kind' = [req_kind EXCEPT ![r] = "none"]
    /\ req_i' = [req_i EXCEPT ![r] = 0]
    /\ req_values' = [req_values EXCEPT ![r] = NoResult]

ConcurrentNext ==
    \/ \E r \in Requests, kind \in RequestKinds : HandlerArrive(r, kind)
    \/ \E r \in Requests, body \in PostBodies : HandlerStart(r, body)
    \/ \E r \in Requests, change \in Drifts : GenerateKeyStep(r, change)
    \/ \E r \in Requests : HandlerReturn(r)

GLOFNext ==
    \/ \E change \in DriftVectors : GLOFSensors(change)
    \/ \E change \in DriftVectors, answer \in ClassifierAnswers, noise \in Noises :
          GLOFPredictSimulated(change, answer, noise)
    \/ \E body \in PostBodies :
          \E change \in DrawsFor(body),
             answer \in ClassifierAnswers, noise \in Noises :
             GLOFPredictWithData(body, change, answer, noise)
    \/ GLOFRespond

-----------------------------------------------------------------------------
(* SAR preprocessing: preprocessing_service.py, class SARPreprocessor.

   An image is modelled by one row of cells.  A decoded image holds digital
   numbers 0..255; every later stage holds floats, modelled as exact
   rationals <<numerator, denominator>> in lowest terms with a positive
   denominator, and the non-finite floats by a zero denominator. *)

MaxCells == 3       \* cells of an image
TargetCells == 2    \* cells of the resized image (settings.IMAGE_SIZE)

NaN == <<0, 0>>
PosInf == <<1, 0>>
NegInf == <<-1, 0>>
Zero == <<0, 1>>

IsFinite(c) == c[2] # 0

RECURSIVE GCD(_, _)
GCD(a, b) == IF b = 0 THEN a ELSE GCD(b, a % b)

\* the rational n/d (d > 0) in lowest terms
Rat(n, d) == LET g == GCD(IF n < 0 THEN -n ELSE n, d) IN <<n \div g, d \div g>>

RatAdd(a, b) == Rat(a[1] * b[2] + b[1] * a[2], a[2] * b[2])
RatSub(a, b) == Rat(a[1] * b[2] - b[1] * a[2], a[2] * b[2])
RatLe(a, b) == a[1] * b[2] <= b[1] * a[2]
\* a / b for b > 0
RatDiv(a, b) == Rat(a[1] * b[2], a[2] * b[1])

\* IEEE comparison, subtraction and division of floats that are not NaN
FloatLe(a, b) ==
    IF IsFinite(a) /\ IsFinite(b) THEN RatLe(a, b)
    ELSE a = NegInf \/ b = PosInf

FloatSub(a, b) ==
    CASE a = NaN \/ b = NaN -> NaN
      [] IsFinite(a) /\ IsFinite(b) -> RatSub(a, b)
      [] IsFinite(a) -> IF b = PosInf THEN NegInf ELSE PosInf
      [] a = b -> NaN
      [] OTHER -> a

\* x > 0 (False for NaN)
FloatPositive(x) == x = PosInf \/ (IsFinite(x) /\ x[1] > 0)

\* a / b for a float b > 0
FloatDiv(a, b) ==
    CASE a = NaN -> NaN
      [] IsFinite(a) /\ IsFinite(b) -> RatDiv(a, b)
      [] IsFinite(a) -> Zero
      [] IsFinite(b) -> a
      [] OTHER -> NaN

\* images cv2 decodes: digital numbers far apart or equal
Pixels == {0, 128, 255}
DecodedImages == SeqsUpTo(Pixels, MaxCells) \ {<<>>}
\* cv2.imread / cv2.imdecode answer None
NoImage == <<>>

\* grids the stages can be called on directly
FloatCells == {NaN, PosInf, NegInf, Zero, <<1, 2>>, <<1, 1>>, <<-3, 1>>}
FloatGrids == SeqsUpTo(FloatCells, MaxCells) \ {<<>>}

(* speckle_filter: image / 255.0, then skimage's denoise_bilateral with
   sigma_color=0.05.  The filter averages a cell with its neighbours weighted
   by exp(-0.5 (difference / 0.05)^2): between two cells of Pixels that
   differ the weight is below 1e-21, which a float64 sum drops, and equal
   cells average to themselves; so on these images the filter returns the
   scaled image. *)
SpeckleFilter(image) == [i \in DOMAIN image |-> Rat(image[i], 255)]

\* 10 * log10(x) in hundredths of a dB, for the values SpeckleFilter gives
TenLog10(x) ==
    CASE x = <<1, 1>> -> Zero
      [] x = <<128, 255>> -> Rat(-299, 100)

\* convert_to_sigma0: cells that are not positive become 1e-10, i.e. -100 dB
ConvertToSigma0(image) ==
    [i \in DOMAIN image |->
        IF IsFinite(image[i]) /\ image[i][1] > 0 THEN TenLog10(image[i])
        ELSE <<-100, 1>>]

RECURSIVE SumCells(_)
SumCells(s) == IF s = <<>> THEN Zero ELSE RatAdd(Head(s), SumCells(Tail(s)))

\* clean_image
CleanImage(image) ==
    LET finite == SelectSeq(image, IsFinite)
        mean_value == RatDiv(SumCells(finite), <<Len(finite), 1>>)
    IN  IF finite # <<>>
        THEN [i \in DOMAIN image |->
                 IF IsFinite(image[i]) THEN image[i] ELSE mean_value]
        ELSE image

\* np.min / np.max: NaN as soon as one cell is NaN
MinCell(image) ==
    IF \E i \in DOMAIN image : image[i] = NaN THEN NaN
    ELSE CHOOSE c \in {image[i] : i \in DOMAIN image} :
             \A i \in DOMAIN image : FloatLe(c, image[i])

MaxCell(image) ==
    IF \E i \in DOMAIN image : image[i] = NaN THEN NaN
    ELSE CHOOSE c \in {image[i] : i \in DOMAIN image} :
             \A i \in DOMAIN image : FloatLe(image[i], c)

\* normalize without the shift by the minimum
NormalizeUnshifted(image) ==
    LET min_val == MinCell(image)
        max_val == MaxCell(image)
        range == FloatSub(max_val, min_val)
    IN  IF FloatPositive(range)
        THEN [i \in DOMAIN image |-> FloatDiv(image[i], range)]
        ELSE [i \in DOMAIN image |-> Zero]

\* normalize
Normalize(image) ==
    LET min_val == MinCell(image)
        max_val == MaxCell(image)
        range == FloatSub(max_val, min_val)
    IN  IF FloatPositive(range)
        THEN [i \in DOMAIN image |-> FloatDiv(FloatSub(image[i], min_val), range)]
        ELSE [i \in DOMAIN image |-> Zero]

(* resize: cv2.resize(image, target_size, INTER_LINEAR) along the row.  The
   target cell j (from 0) samples the source at (j + 0.5) * n / T - 0.5,
   clamped to the row, and interpolates between the two cells around it. *)
Resize(image) ==
    LET n == Len(image)
        D == 2 * TargetCells
        At(j) ==
            LET N == (2 * j + 1) * n - TargetCells
                i0 == N \div D
                f == N - i0 * D
            IN  IF N < 0 THEN image[1]
                ELSE IF i0 + 1 >= n THEN image[n]
                ELSE RatAdd(Rat((D - f) * image[i0 + 1][1], D * image[i0 + 1][2]),
                            Rat(f * image[i0 + 2][1], D * image[i0 + 2][2]))
    IN  [j \in 1..TargetCells |-> At(j - 1)]

\* np.stack([resized, resized, resized], axis=-1)
StackChannels(image) == [i \in DOMAIN image |-> <<image[i], image[i], image[i]>>]

(* astype(np.float32) of a value in [0, 1]: to the nearest multiple of 2^-24,
   ties to even (the spacing of float32 on [0.5, 1]; the code keeps more bits
   below 0.5).  The division is done in two halves of 12 bits. *)
AsFloat32(x) ==
    LET q1 == (x[1] * 4096) \div x[2]
        r1 == (x[1] * 4096) % x[2]
        q2 == (r1 * 4096) \div x[2]
        r2 == (r1 * 4096) % x[2]
        m == q1 * 4096 + q2
        up == 2 * r2 > x[2] \/ (2 * r2 = x[2] /\ m % 2 = 1)
    IN  Rat(IF up THEN m + 1 ELSE m, 16777216)

\* np.expand_dims(rgb_image, axis=0) and the cast of the return statement
BatchTensor(rgb_image) ==
    << [i \in DOMAIN rgb_image |->
           [c \in 1..3 |-> AsFloat32(rgb_image[i][c])]] >>

\* preprocess, statement by statement
PreprocessRead(image) ==
    /\ pre_pc = "idle"
    /\ pre_entry' = "preprocess"
    /\ pre_image' = image
    /\ pre_value' = image
    /\ pre_pc' = IF image = NoImage THEN "raised" ELSE "image"
    /\ UNCHANGED <<raised, notPre>>

PreprocessFilter ==
    /\ pre_entry = "preprocess" /\ pre_pc = "image"
    /\ pre_value' = SpeckleFilter(pre_value)
    /\ pre_pc' = "filtered"
    /\ UNCHANGED <<raised, pre_entry, pre_image, notPre>>

PreprocessSigma0 ==
    /\ pre_entry = "preprocess" /\ pre_pc = "filtered"
    /\ pre_value' = ConvertToSigma0(pre_value)
    /\ pre_pc' = "sigma0"
    /\ UNCHANGED <<raised, pre_entry, pre_image, notPre>>

PreprocessClean ==
    /\ pre_entry = "preprocess" /\ pre_pc = "sigma0"
    /\ pre_value' = CleanImage(pre_value)
    /\ pre_pc' = "cleaned"
    /\ UNCHANGED <<raised, pre_entry, pre_image, notPre>>

PreprocessNormalize ==
    /\ pre_entry = "preprocess" /\ pre_pc = "cleaned"
    /\ pre_value' = Normalize(pre_value)
    /\ pre_pc' = "normalized"
    /\ UNCHANGED <<raised, pre_entry, pre_image, notPre>>

PreprocessResize ==
    /\ pre_entry = "preprocess" /\ pre_pc = "normalized"
    /\ pre_value' = Resize(pre_value)
    /\ pre_pc' = "resized"
    /\ UNCHANGED <<raised, pre_entry, pre_image, notPre>>

PreprocessStack ==
    /\ pre_entry = "preprocess" /\ pre_pc = "resized"
    /\ pre_value' = StackChannels(pre_value)
    /\ pre_pc' = "rgb"
    /\ UNCHANGED <<raised, pre_entry, pre_image, notPre>>

PreprocessReturn ==
    /\ pre_entry = "preprocess" /\ pre_pc = "rgb"
    /\ pre_value' = BatchTensor(pre_value)
    /\ pre_pc' = "batch"
    /\ UNCHANGED <<raised, pre_entry, pre_image, notPre>>

\* preprocess_from_bytes, statement by statement
FromBytesDecode(image) ==
    /\ pre_pc = "idle"
    /\ pre_entry' = "preprocess_from_bytes"
    /\ pre_image' = image
    /\ pre_value' = image
    /\ pre_pc' = IF image = NoImage THEN "raised" ELSE "image"
    /\ UNCHANGED <<raised, notPre>>

FromBytesFilter ==
    /\ pre_entry = "preprocess_from_bytes" /\ pre_pc = "image"
    /\ pre_value' = SpeckleFilter(pre_value)
    /\ pre_pc' = "filtered"
    /\ UNCHANGED <<raised, pre_entry, pre_image, notPre>>

FromBytesSigma0 ==
    /\ pre_entry = "preprocess_from_bytes" /\ pre_pc = "filtered"
    /\ pre_value' = ConvertToSigma0(pre_value)
    /\ pre_pc' = "sigma0"
    /\ UNCHANGED <<raised, pre_entry, pre_image, notPre>>

FromBytesClean ==
    /\ pre_entry = "preprocess_from_bytes" /\ pre_pc = "sigma0"
    /\ pre_value' = CleanImage(pre_value)
    /\ pre_pc' = "cleaned"
    /\ UNCHANGED <<raised, pre_entry, pre_image, notPre>>

FromBytesNormalizeSkipped ==
    /\ pre_entry = "preprocess_from_bytes" /\ pre_pc = "cleaned"
    /\ pre_value' = pre_value
    /\ pre_pc' = "normalized"
    /\ UNCHANGED <<raised, pre_entry, pre_image, notPre>>

FromBytesNormalize ==
    /\ pre_entry = "preprocess_from_bytes" /\ pre_pc = "cleaned"
    /\ pre_value' = Normalize(pre_value)
    /\ pre_pc' = "normalized"
    /\ UNCHANGED <<raised, pre_entry, pre_image, notPre>>

FromBytesResize ==
    /\ pre_entry = "preprocess_from_bytes" /\ pre_pc = "normalized"
    /\ pre_value' = Resize(pre_value)
    /\ pre_pc' = "resized"
    /\ UNCHANGED <<raised, pre_entry, pre_image, notPre>>

FromBytesStack ==
    /\ pre_entry = "preprocess_from_bytes" /\ pre_pc = "resized"
    /\ pre_value' = StackChannels(pre_value)
    /\ pre_pc' = "rgb"
    /\ UNCHANGED <<raised, pre_entry, pre_image, notPre>>

FromBytesReturn ==
    /\ pre_entry = "preprocess_from_bytes" /\ pre_pc = "rgb"
    /\ pre_value' = BatchTensor(pre_value)
    /\ pre_pc' = "batch"
    /\ UNCHANGED <<raised, pre_entry, pre_image, notPre>>

\* a stage called on its own
CleanImageCall(image) ==
    /\ pre_pc = "idle"
    /\ pre_entry' = "clean_image"
    /\ pre_image' = image
    /\ pre_value' = CleanImage(image)
    /\ pre_pc' = "returned"
    /\ UNCHANGED <<raised, notPre>>

NormalizeCall(image) ==
    /\ pre_pc = "idle"
    /\ pre_entry' = "normalize"
    /\ pre_image' = image
    /\ pre_value' = Normalize(image)
    /\ pre_pc' = "returned"
    /\ UNCHANGED <<raised, notPre>>

\* the caller takes the result (or the ValueError); the next call can start
PreRespond ==
    /\ pre_pc \in {"batch", "raised", "returned"}
    /\ pre_pc' = "idle"
    /\ pre_entry' = "none"
    /\ pre_image' = NoImage
    /\ pre_value' = NoImage
    /\ UNCHANGED <<raised, notPre>>

PreNext ==
    \/ \E image \in DecodedImages \cup {NoImage} : PreprocessRead(image)
    \/ PreprocessFilter
    \/ PreprocessSigma0
    \/ PreprocessClean
    \/ PreprocessNormalize
    \/ PreprocessResize
    \/ PreprocessStack
    \/ PreprocessReturn
    \/ \E image \in DecodedImages \cup {NoImage} : FromBytesDecode(image)
    \/ FromBytesFilter
    \/ FromBytesSigma0
    \/ FromBytesClean
    \/ FromBytesNormalize
    \/ FromBytesResize
    \/ FromBytesStack
    \/ FromBytesReturn
    \/ \E image \in FloatGrids : CleanImageCall(image)
    \/ \E image \in FloatGrids : NormalizeCall(image)
    \/ PreRespond

-----------------------------------------------------------------------------
(* Specifications: one per process of run.py, each from the state in which
   its own service has been constructed.  Whether the SAR model file, the
   rasterio package and the pickled classifier were found, and the depth the
   environment configures, are decided at construction; the processes share nothing, so the flags of the other
   services are left FALSE. *)

InitWith(models, rasterios, classifiers, depths, scores, environments) ==
    /\ raised = "none"
    /\ sar_model \in models
    /\ sar_pc = "idle"
    /\ sar_paths = <<>>
    /\ sar_results = <<>>
    /\ sar_out = NoResult
    /\ lake_pc = "idle"
    /\ lake_paths = <<>>
    /\ lake_res = 0
    /\ lake_results = <<>>
    /\ lake_in = NoResult
    /\ lake_out = NoResult
    /\ dem_rasterio \in rasterios
    /\ dem_in = NoResult
    /\ dem_out = NoResult
    /\ mot_pc = "idle"
    /\ mot_video = NoVideo
    /\ mot_skip = 1
    /\ mot_max = 0
    /\ mot_prev = NoFrame
    /\ mot_count = 0
    /\ mot_analyzed = 0
    /\ mot_results = <<>>
    /\ mot_out = NoResult
    /\ mot_estimated_depth \in depths
    /\ glof_loaded \in classifiers
    /\ glof_scores \in scores
    /\ glof_baseline = InitialBaseline
    /\ glof_steps = 0
    /\ glof_p = 0
    /\ glof_out = NoResult
    /\ glof_in = NoResult
    /\ req_pc = [r \in Requests |-> "idle"]
    /\ req_kind = [r \in Requests |-> "none"]
    /\ req_i = [r \in Requests |-> 0]
    /\ req_values = [r \in Requests |-> NoResult]
    /\ pre_pc = "idle"
    /\ pre_entry = "none"
    /\ pre_image = NoImage
    /\ pre_value = NoImage
    /\ alert_env \in environments
    /\ alert_pc = "idle"
    /\ alert_prediction = NoResult
    /\ alert_nearest = NoResult
    /\ alert_attempted = <<>>
    /\ alert_sent = 0
    /\ alert_errors = <<>>

InitSAR    == InitWith(BOOLEAN, {FALSE}, {FALSE}, {ESTIMATED_DEPTH}, {FeatureImportance},
                       {NoAlerting})
InitLake   == InitWith({FALSE}, {FALSE}, {FALSE}, {ESTIMATED_DEPTH}, {FeatureImportance},
                       {NoAlerting})
InitDEM    == InitWith({FALSE}, BOOLEAN, {FALSE}, {ESTIMATED_DEPTH}, {FeatureImportance},
                       {NoAlerting})
InitMotion == InitWith({FALSE}, {FALSE}, {FALSE}, EstimatedDepths, {FeatureImportance},
                       {NoAlerting})
InitGLOF   == InitWith({FALSE}, {FALSE}, BOOLEAN, {ESTIMATED_DEPTH}, FeatureImportances,
                       {NoAlerting})

SpecSAR    == InitSAR /\ [][SARNext]_vars
SpecLake   == InitLake /\ [][LakeNext]_vars

\* the lake service when the images are given pixel by pixel
SpecSegmentation == InitLake /\ [][SegmentationNext]_vars
SpecDEM    == InitDEM /\ [][DEMNext]_vars
SpecMotion == InitMotion /\ [][MotionNext]_vars

\* analyze_video runs in its request handler without waiting for anything:
\* an iteration that can be taken is taken, and so is the return
MotionFairness ==
    /\ WF_vars(\E flow \in FlowOutcomes : MotionVideoFrame(flow))
    /\ WF_vars(MotionVideoReturn)

SpecMotionLive == InitMotion /\ [][MotionNext]_vars /\ MotionFairness
SpecGLOF   == InitGLOF /\ [][GLOFNext]_vars

\* the preprocessor of the SAR service, called by SARAnalyzer or on its own
InitAlert ==
    InitWith({FALSE}, {FALSE}, BOOLEAN, {ESTIMATED_DEPTH}, {FeatureImportance},
             AlertEnvironments)

SpecAlert == InitAlert /\ [][AlertNext]_vars

InitPreprocess == InitWith({FALSE}, {FALSE}, {FALSE}, {ESTIMATED_DEPTH}, {FeatureImportance},
                       {NoAlerting})
SpecPreprocess == InitPreprocess /\ [][PreNext]_vars

\* the GLOF service under concurrent requests
InitGLOFConcurrent ==
    InitWith({FALSE}, {FALSE}, BOOLEAN, {ESTIMATED_DEPTH}, {FeatureImportance},
                       {NoAlerting})

SpecGLOFConcurrent == InitGLOFConcurrent /\ [][ConcurrentNext]_vars

\* A service with an optional capability, observed alone.  The services share
\* no state, so a conjunction of properties of single services holds of the
\* processes running side by side iff it holds of each of them running alone:
\* a service takes steps only while the other two have not been called.
SARAtRest ==
    sar_pc = "idle" /\ sar_out = NoResult /\ sar_paths = <<>> /\ sar_results = <<>>

DEMAtRest == dem_in = NoResult /\ dem_out = NoResult

GLOFAtRest ==
    glof_out = NoResult /\ glof_steps = 0 /\ glof_baseline = InitialBaseline

InitCapability == InitWith(BOOLEAN, BOOLEAN, BOOLEAN, {ESTIMATED_DEPTH}, {FeatureImportance},
                       {NoAlerting})

CapabilityNext ==
    \/ DEMAtRest /\ GLOFAtRest /\ SARNext
    \/ SARAtRest /\ GLOFAtRest /\ DEMNext
    \/ SARAtRest /\ DEMAtRest /\ GLOFNext

SpecCapability == InitCapability /\ [][CapabilityNext]_vars

-----------------------------------------------------------------------------
(* Properties *)

IsBatch(out) == "individual_results" \in DOMAIN out

RECURSIVE SumOver(_, _)
SumOver(f, S) ==
    IF S = {} THEN 0
    ELSE LET i == CHOOSE i \in S : TRUE IN f[i] + SumOver(f, S \ {i})

Abs(x) == IF x < 0 THEN -x ELSE x

\* what predict answers for the file at a path: success or not
SARAnalysable(path) ==
    sar_model /\ SARFiles[path].readable /\ SARFiles[path].infer_ok

\* C1: analyze_batch analyses every path whatever fails before it:
\* individual_results has one entry per input path, in input order, each the
\* outcome of its own image, and the average and the maximum GLOF probability
\* are those of the successful entries only.
C1_BatchIsolatesFailures ==
    (sar_pc = "done" /\ IsBatch(sar_out)) =>
        LET rs == sar_out.individual_results
            ok == { i \in 1..Len(rs) : rs[i].success }
            probs == [i \in ok |-> rs[i].glof_probability]
        IN  /\ Len(rs) = Len(sar_paths)
            /\ \A i \in 1..Len(rs) :
                  /\ rs[i].image_path = sar_paths[i]
                  /\ rs[i].success = SARAnalysable(sar_paths[i])
            /\ sar_out.success = (ok # {})
            /\ sar_out.success =>
                  /\ 2 * Abs(sar_out.average_glof_probability * Cardinality(ok)
                             - SumOver(probs, ok)) <= Cardinality(ok)
                  /\ \E i \in ok : sar_out.max_glof_probability = probs[i]
                  /\ \A i \in ok : sar_out.max_glof_probability >= probs[i]

\* a finished batch in which a failed image precedes two successful ones
C1_Witness ==
    /\ sar_pc = "done"
    /\ IsBatch(sar_out)
    /\ sar_out.success
    /\ Len(sar_paths) = 3
    /\ ~sar_out.individual_results[1].success
    /\ sar_out.individual_results[2].success
    /\ sar_out.individual_results[3].success
    /\ sar_out.individual_results[2].glof_probability
         # sar_out.individual_results[3].glof_probability

\* C2: no per-observation entry point lets an exception escape to its
\* caller; every failure comes back as a {success: false, error} result.
C2_NoExceptionEscapes ==
    /\ raised = "none"
    /\ \A out \in {sar_out, lake_out, dem_out, mot_out} : ~Raises(out)

\* C3: compare_images keeps going when an image fails: once it has stopped
\* for a list of paths it has returned, individual_results holds one entry
\* per path, the entry of an unreadable image is marked unsuccessful, and the
\* trend is computed from the successful entries only.
C3_CompareKeepsGoing ==
    (lake_pc \in {"done", "raised"} /\ lake_paths # <<>>) =>
        /\ lake_pc = "done"
        /\ Len(lake_out.individual_results) = Len(lake_paths)
        /\ \A i \in 1..Len(lake_paths) :
              lake_out.individual_results[i].success = LakeFiles[lake_paths[i]].readable
        /\ lake_out.trend_analysis =
              TrendAnalysis(SelectSuccess(lake_out.individual_results))

\* C4: every aggregate reports the total number of observations and the
\* number that succeeded, in every outcome.
C4_AggregateReportsCounts ==
    /\ (sar_pc = "done" /\ IsBatch(sar_out)) =>
          /\ {"total_images", "successful_analyses"} \subseteq DOMAIN sar_out
          /\ sar_out.total_images = Len(sar_paths)
          /\ sar_out.successful_analyses = Len(SelectSuccess(sar_results))
    /\ (lake_pc = "done" /\ IsBatch(lake_out)) =>
          /\ {"image_count", "successful_analyses"} \subseteq DOMAIN lake_out
          /\ lake_out.image_count = Len(lake_paths)
    /\ (mot_pc = "done" /\ "analysis" \in DOMAIN mot_out) =>
          mot_out.analysis.frames_analyzed = Len(mot_results)

\* the resolution compare_images and analyze_image work with
EffectiveResolution == IF lake_res # 0 THEN lake_res ELSE DEFAULT_RESOLUTION

\* C5: with at least two successful observations, total_change is the last
\* after-dilation lake size minus the first, average_change is total_change
\* divided by (count - 1), presented to two decimals, and the trend is the
\* sign of total_change; the observations in between play no part.
C5_TrendFromFirstAndLast ==
    (lake_pc = "done" /\ IsBatch(lake_out)) =>
        LET ok    == SelectSuccess(lake_out.individual_results)
            n     == Len(ok)
            first == LakeFiles[ok[1].image_path].lake_after
                       * EffectiveResolution * EffectiveResolution
            last  == LakeFiles[ok[n].image_path].lake_after
                       * EffectiveResolution * EffectiveResolution
            t     == lake_out.trend_analysis
        IN  n >= 2 =>
              /\ t.total_lake_change_m2 = last - first
              /\ 2 * Abs(t.average_change_per_image_m2 * (n - 1) - 100 * (last - first))
                    <= n - 1
              /\ t.trend = "EXPANDING" <=> last > first
              /\ t.trend = "SHRINKING" <=> last < first
              /\ t.trend = "STABLE"    <=> last = first

\* three observations whose middle one is the largest, the lake shrinking
\* from the first to the last
C5_Witness ==
    /\ lake_pc = "done"
    /\ IsBatch(lake_out)
    /\ lake_paths = <<"scan_3", "scan_2", "scan_1">>
    /\ lake_out.trend_analysis.trend = "SHRINKING"

\* C6: with fewer than two successful observations the trend is
\* INSUFFICIENT_DATA for none and UNKNOWN for exactly one, with both changes 0.
C6_FewObservations ==
    (lake_pc = "done" /\ IsBatch(lake_out)) =>
        LET n == Len(SelectSuccess(lake_out.individual_results))
            t == lake_out.trend_analysis
        IN  n < 2 =>
              /\ t.total_lake_change_m2 = 0
              /\ t.average_change_per_image_m2 = 0
              /\ n = 0 => t.trend = "INSUFFICIENT_DATA"
              /\ n = 1 => t.trend = "UNKNOWN"

IsUpload == lake_pc = "done" /\ ~IsBatch(lake_out)

\* C7: the lake level is HIGH iff change > 20 or water > 60, otherwise
\* MODERATE iff change > 10 or water > 40, otherwise LOW, with
\* change = (after - before) / before * 100 and water = after / pixels * 100.
C7_LakeRiskTable ==
    IsUpload =>
        LET b == lake_in.lake_before
            a == lake_in.lake_after
            high == (a - b) * 100 > 20 * b \/ a * 100 > 60 * lake_in.pixels
            mod  == (a - b) * 100 > 10 * b \/ a * 100 > 40 * lake_in.pixels
            level == lake_out.risk.level
        IN  /\ level = "HIGH" <=> high
            /\ level = "MODERATE" <=> (~high /\ mod)
            /\ level = "LOW" <=> (~high /\ ~mod)

\* a change of exactly 20 percent with little water: not HIGH
C7_Witness ==
    /\ IsUpload
    /\ lake_in.lake_before = 5
    /\ lake_in.lake_after = 6
    /\ lake_out.lake.change_percent = 2000
    /\ lake_out.risk.level = "MODERATE"

\* C8: the elevation level is HIGH iff overflow_rate > 1000 or velocity > 0.5,
\* otherwise MODERATE iff overflow_rate > 500 or velocity > 0.3, otherwise
\* LOW, whatever the submerged area.
C8_DEMRiskTable ==
    ("success" \in DOMAIN dem_out /\ dem_out.success) =>
        LET high == dem_in.dem.overflow_rate > 1000000 \/ dem_in.dem.avg_flow_velocity > 50000
            mod  == dem_in.dem.overflow_rate > 500000 \/ dem_in.dem.avg_flow_velocity > 30000
            level == dem_out.risk.level
        IN  /\ level = "HIGH" <=> high
            /\ level = "MODERATE" <=> (~high /\ mod)
            /\ level = "LOW" <=> (~high /\ ~mod)

\* a large submerged area with overflow and velocity on the MODERATE bounds
C8_Witness ==
    /\ "success" \in DOMAIN dem_out
    /\ dem_out.success
    /\ dem_out.water_flow.submerged_area_m2 = 1000
    /\ dem_in.dem.overflow_rate = 500000
    /\ dem_in.dem.avg_flow_velocity = 30000
    /\ dem_out.risk.level = "LOW"

\* the motion table on a volume and a velocity in 1/10000
MotionLevel(volume, velocity) ==
    IF volume > 100000 \/ velocity > 50000 THEN "HIGH"
    ELSE IF volume > 50000 \/ velocity > 20000 THEN "MODERATE"
    ELSE "LOW"

\* C9: every successful per-pair result carries the risk level of the motion
\* table for its total volume and average velocity, and every video result
\* carries the one for the video averages.
C9_MotionRiskEverywhere ==
    /\ (mot_pc = "done" /\ "regions" \in DOMAIN mot_out) =>
          /\ "risk" \in DOMAIN mot_out
          /\ mot_out.risk.level =
                MotionLevel(mot_out.total_flow_volume_m3, mot_out.avg_flow_velocity)
    /\ \A i \in 1..Len(mot_results) :
          /\ "risk" \in DOMAIN mot_results[i]
          /\ mot_results[i].risk.level =
                MotionLevel(mot_results[i].total_flow_volume_m3,
                            mot_results[i].avg_flow_velocity)
    /\ (mot_pc = "done" /\ "analysis" \in DOMAIN mot_out) =>
          mot_out.risk.level \in {"LOW", "MODERATE", "HIGH"}

IsPrediction == "risk_level" \in DOMAIN glof_out

\* the buckets of C10 on the probability predict computed
BucketsAsClaimed ==
    /\ glof_out.risk_level = "HIGH"     <=> glof_p >= 700000
    /\ glof_out.risk_level = "MODERATE" <=> (400000 <= glof_p /\ glof_p < 700000)
    /\ glof_out.risk_level = "LOW"      <=> glof_p < 400000

\* C10 as stated: the buckets, and the reported percentage is p * 100
C10_PercentageIsExact ==
    IsPrediction =>
        /\ BucketsAsClaimed
        /\ glof_out.probability = glof_p
        /\ 0 <= glof_out.probability /\ glof_out.probability <= 1000000

\* C10, amended: predict buckets the probability p it computed as HIGH iff
\* p >= 0.7, MODERATE iff 0.4 <= p < 0.7, LOW iff p < 0.4, from the classifier
\* or from the heuristic, and the reported percentage is p * 100 rounded to
\* two decimals, within [0, 100].
C10_BucketsAndRoundedPercentage ==
    IsPrediction =>
        /\ 0 <= glof_p /\ glof_p <= 1000000
        /\ BucketsAsClaimed
        /\ glof_out.probability % 100 = 0
        /\ 2 * Abs(glof_out.probability - glof_p) <= 100
        /\ 0 <= glof_out.probability /\ glof_out.probability <= 1000000

\* the classifier answers just under 0.7: MODERATE, reported as 70.00
C10_Witness ==
    /\ IsPrediction
    /\ glof_loaded
    /\ glof_p = 699996
    /\ glof_out.risk_level = "MODERATE"
    /\ glof_out.probability = 700000

\* the levels of a RiskAssessment
RiskLevels == {"LOW", "MODERATE", "HIGH", "CRITICAL"}

\* the risk levels a returned value carries: its own and, for an aggregate,
\* those of its individual results
RECURSIVE LevelsOfEach(_)
LevelsOf(out) ==
    (IF "risk" \in DOMAIN out THEN {out.risk.level} ELSE {})
    \cup (IF "risk_level" \in DOMAIN out THEN {out.risk_level} ELSE {})
    \cup (IF "individual_results" \in DOMAIN out
          THEN LevelsOfEach(out.individual_results) ELSE {})
LevelsOfEach(rs) ==
    IF rs = <<>> THEN {} ELSE LevelsOf(Head(rs)) \cup LevelsOfEach(Tail(rs))

\* C11: every risk level in every successful result of every analyzer is one
\* of LOW, MODERATE, HIGH, CRITICAL, also for a video from which no frame
\* pair could be analysed.
C11_OnlyFourLevels ==
    \A out \in {sar_out, lake_out, dem_out, mot_out, glof_out} :
        ("success" \in DOMAIN out => out.success) => LevelsOf(out) \subseteq RiskLevels

\* the rational c is the quotient num / den (den > 0)
IsQuotient(c, num, den) == c[2] > 0 /\ c[1] * den = num * c[2]

\* the claim of C12 for one region: sizes in m2 and the presented change
ChangeAsClaimed(before, after, presented) ==
    /\ \A c \in {CalculateChangePercent(before, after),
                 ProcessGlacialImageChangePercent(before, after)} :
          /\ before > 0 => IsQuotient(c, (after - before) * 100, before)
          /\ before = 0 => c[1] = 0
    /\ presented = Round2(CalculateChangePercent(before, after))
    /\ before > 0 => 2 * Abs(presented * before - (after - before) * 10000) <= before
    /\ before = 0 => presented = 0

\* C12: the percentage change of the lake and of the ice region is
\* (after - before) / before * 100 when before > 0 and exactly 0 when
\* before = 0, so nothing is divided by zero; the result presents it with
\* two decimals.
C12_ChangePercent ==
    (IsUpload /\ "lake" \in DOMAIN lake_out) =>
        LET r2 == EffectiveResolution * EffectiveResolution
        IN  /\ ChangeAsClaimed(lake_in.lake_before * r2, lake_in.lake_after * r2,
                               lake_out.lake.change_percent)
            /\ ChangeAsClaimed(lake_in.ice_before * r2, lake_in.ice_after * r2,
                               lake_out.ice.change_percent)

\* an image with no ice region: the ice change is 0 and the lake change is not
C12_Witness ==
    /\ IsUpload
    /\ "lake" \in DOMAIN lake_out
    /\ lake_in.ice_before = 0
    /\ lake_out.ice.change_percent = 0
    /\ lake_in.lake_before = 3
    /\ lake_in.lake_after = 4
    /\ lake_out.lake.change_percent = 3333

\* every size, area and volume of one returned value is >= 0
SizesNonNegative(out) ==
    /\ "lake" \in DOMAIN out =>
          /\ out.lake.size_before_m2 >= 0 /\ out.lake.size_after_m2 >= 0
          /\ out.ice.size_before_m2 >= 0 /\ out.ice.size_after_m2 >= 0
          /\ out.coverage.total_area_m2 >= 0
    /\ "water_flow" \in DOMAIN out =>
          /\ out.water_flow.submerged_volume_m3 >= 0
          /\ out.water_flow.submerged_area_m2 >= 0
    /\ "regions" \in DOMAIN out =>
          /\ \A i \in 1..Len(out.regions) :
                out.regions[i].area_m2 >= 0 /\ out.regions[i].volume_m3 >= 0
          /\ out.total_flow_volume_m3 >= 0
    /\ "analysis" \in DOMAIN out =>
          /\ out.analysis.avg_flow_volume_m3 >= 0
          /\ out.analysis.max_flow_volume_m3 >= 0

\* C13: every size, area and volume in every successful result is
\* non-negative, whatever the input and whatever the configured resolution,
\* downscale factor, pixel-to-meter conversion and estimated depth.
C13_SizesNonNegative ==
    /\ \A out \in {lake_out, dem_out, mot_out} : SizesNonNegative(out)
    /\ \A i \in 1..Len(lake_results) : SizesNonNegative(lake_results[i])
    /\ \A i \in 1..Len(mot_results) : SizesNonNegative(mot_results[i])

\* the failure of a service whose classifier or package is missing
ModelNotLoaded == [error |-> "Model not loaded", success |-> FALSE]
RasterioMissing == [success |-> FALSE, error |-> "rasterio not installed"]

\* C14: a missing optional capability never raises.  Without the SAR model
\* predict answers "Model not loaded" whatever the image; without the tabular
\* classifier predict answers a heuristic probability in [0, 1] with a risk
\* level; without rasterio analyze_dem answers a failure with no metrics that
\* differs from the failure it answers for a corrupt DEM.
C14_MissingCapability ==
    /\ raised = "none"
    /\ \A out \in {sar_out, dem_out, glof_out} : ~Raises(out)
    /\ (sar_pc = "done" /\ ~sar_model) =>
          IF IsBatch(sar_out)
          THEN \A i \in 1..Len(sar_results) :
                  sar_results[i] = ModelNotLoaded @@ [image_path |-> sar_paths[i]]
          ELSE sar_out = ModelNotLoaded
    /\ (IsPrediction /\ ~glof_loaded) =>
          /\ 0 <= glof_p /\ glof_p <= 1000000
          /\ glof_out.risk_level \in {"LOW", "MODERATE", "HIGH"}
          /\ BucketsAsClaimed
          /\ glof_out.probability = Percentage(glof_p)
    /\ (dem_out # NoResult /\ ~dem_rasterio) => dem_out = RasterioMissing
    /\ (dem_out # NoResult /\ dem_rasterio /\ ~dem_in.dem.readable) =>
          /\ ~dem_out.success
          /\ DOMAIN dem_out = {"success", "error"}
          /\ dem_out.error # RasterioMissing.error

\* rasterio is missing and a readable DEM was submitted
C14_Witness ==
    /\ ~dem_rasterio
    /\ dem_in # NoResult
    /\ dem_in.dem.readable
    /\ dem_out = RasterioMissing

\* C15: motion analysis fails explicitly: an unopenable video and an
\* undecodable frame pair give success = false, and analyze_video never
\* answers success = true when no frame pair was analysed.
C15_NoSilentZeroResult ==
    (mot_pc = "done" /\ "success" \in DOMAIN mot_out) =>
        /\ ("analysis" \in DOMAIN mot_out \/ "error" \in DOMAIN mot_out) =>
              /\ ~mot_video.openable => ~mot_out.success
              /\ (mot_video.openable /\ mot_results = <<>>) => ~mot_out.success
        /\ mot_out.success => "error" \notin DOMAIN mot_out

\* the number of pairs the claim of C16 gives for the running video
PairsAsClaimed ==
    Min2(mot_max, Max2(0, (Len(mot_video.frames) \div mot_skip) - 1))

\* the counts of analyze_video in one state
CapRespected ==
    /\ mot_analyzed <= mot_max
    /\ mot_analyzed = Len(mot_results)
    /\ (mot_pc = "done" /\ "analysis" \in DOMAIN mot_out) =>
          /\ mot_analyzed = PairsAsClaimed
          /\ mot_out.analysis.frames_analyzed = Len(mot_results)

\* C16: the frame loop of analyze_video terminates, the number of analysed
\* pairs is min(max_frames, max(0, floor(N / frame_skip) - 1)), never more
\* than max_frames, and frames_analyzed is the number of aggregated results.
C16_BoundedByCap ==
    /\ [](CapRespected)
    /\ (mot_pc = "loop") ~> (mot_pc = "done")

\* three frames, every frame retained, cut short by max_frames = 1
C16_Witness ==
    /\ mot_pc = "done"
    /\ "analysis" \in DOMAIN mot_out
    /\ Len(mot_video.frames) = 3
    /\ mot_skip = 1
    /\ mot_max = 1
    /\ mot_count = 2
    /\ mot_out.analysis.frames_analyzed = 1

\* the value returned by a call that ran generate_sensor_values
ReturnedSensors(out) ==
    IF "sensors" \in DOMAIN out THEN out.sensors ELSE out.sensor_values

\* one step of the service, as C17 describes it
DriftStep ==
    /\ DOMAIN glof_baseline' = DOMAIN glof_baseline
    /\ IF glof_steps' # glof_steps
       THEN \* generate_sensor_values ran once
            /\ glof_steps' = glof_steps + 1
            /\ \A k \in SensorKeys :
                  \E d \in -5..5 : glof_baseline'[k] = Max2(0, glof_baseline[k] + d)
            /\ ReturnedSensors(glof_out') = glof_baseline'
       ELSE \* nothing else touches the baseline, a changed copy included
            glof_baseline' = glof_baseline

\* C17: the simulator drifts statefully: every call of generate_sensor_values
\* moves each of the 17 baseline values by at most 0.5 and floors it at 0,
\* returns the new baseline, which is what the next call starts from, every
\* value stays >= 0, and changing the returned copy leaves the baseline alone.
C17_StatefulDrift ==
    /\ [](/\ Cardinality(DOMAIN glof_baseline) = 17
          /\ \A k \in DOMAIN glof_baseline : glof_baseline[k] >= 0)
    /\ [][DriftStep]_vars

\* three calls in a row: the water level has gone down three times from 10.0
\* and the dam pressure, 1.0 at the start, is held at 0
C17_Witness ==
    /\ glof_steps = 3
    /\ "sensors" \in DOMAIN glof_out
    /\ glof_out.sensors = glof_baseline
    /\ glof_baseline["Water_Level_m"] = 85
    /\ glof_baseline["Dam_Pressure_MPa"] = 0

\* the requests that are inside the for loop of generate_sensor_values
InLoop == { r \in Requests : req_pc[r] = "loop" }

\* one step under the single-writer discipline: a call enters its loop, or a
\* POST copies the baseline, only while no call is inside its loop, and the
\* baseline changes only by a step of the one call that is inside
SingleWriterStep ==
    /\ \A r \in Requests :
          (req_pc[r] = "ready" /\ req_pc'[r] # "ready") => InLoop = {}
    /\ glof_baseline' # glof_baseline =>
          \E r \in Requests :
              /\ InLoop = {r}
              /\ req_i'[r] = req_i[r] + 1
              /\ \A k \in SensorKeys \ {KeyOrder[req_i'[r]]} :
                    glof_baseline'[k] = glof_baseline[k]
    /\ \A r \in Requests :
          (req_pc[r] = "loop" /\ req_pc'[r] = "done") =>
              /\ req_i'[r] = Len(KeyOrder)
              /\ req_values'[r] = glof_baseline'

\* C18: under any interleaving of concurrent requests that share the
\* predictor, the executions of generate_sensor_values are serialized: at
\* most one is inside its loop at a time, each starts from the baseline a
\* completed call left, and no update of a key is interleaved with another
\* call's updates.
C18_SingleWriter ==
    /\ [](Cardinality(InLoop) <= 1)
    /\ [][SingleWriterStep]_vars

\* r1 has returned its values; r2 arrived meanwhile and is now inside its own
\* loop, starting from what r1 left
C18_Witness ==
    /\ req_pc["r1"] = "done"
    /\ req_kind["r1"] = "sensors"
    /\ req_values["r1"]["Water_Level_m"] = 105
    /\ req_pc["r2"] = "loop"
    /\ req_kind["r2"] = "predict"
    /\ req_i["r2"] = 2
    /\ glof_baseline["Water_Level_m"] = 110
    /\ glof_steps = 2

\* 0.30 min(water/20, 1) + 0.25 min(flow/200, 1) + 0.25 min(movement/10, 1)
\* + 0.20 min(precipitation/100, 1), in millionths, for readings in tenths
WeightedReadings(sv) ==
    (300000 * Min2(sv["Water_Level_m"], 200)) \div 200
    + (250000 * Min2(sv["Flow_Rate_m3_per_s"], 2000)) \div 2000
    + (250000 * Min2(sv["Ground_Movement_mm"], 100)) \div 100
    + (200000 * Min2(sv["Precipitation_mm"], 1000)) \div 1000

ClampToUnit(x) == Max2(0, Min2(1000000, x))

\* the four readings are at or above 20, 200, 10 and 100
AtCaps(sv) ==
    /\ sv["Water_Level_m"] >= 200 /\ sv["Flow_Rate_m3_per_s"] >= 2000
    /\ sv["Ground_Movement_mm"] >= 100 /\ sv["Precipitation_mm"] >= 1000

\* C19: without a classifier the probability is the weighted sum of the four
\* normalised readings plus a noise within [-0.05, +0.05], clamped to [0, 1];
\* it is always within [0, 1], and for readings at or above their caps and
\* zero noise it is exactly 1.0, with risk HIGH.
C19_HeuristicProbability ==
    (IsPrediction /\ ~glof_loaded) =>
        LET sv == glof_out.sensor_values
        IN  /\ 0 <= glof_p /\ glof_p <= 1000000
            /\ ClampToUnit(WeightedReadings(sv) - 50000) <= glof_p
            /\ glof_p <= ClampToUnit(WeightedReadings(sv) + 50000)
            /\ GenerateMockProbability(sv, 0) = ClampToUnit(WeightedReadings(sv))
            /\ AtCaps(sv) =>
                  /\ GenerateMockProbability(sv, 0) = 1000000
                  /\ RiskBucket(GenerateMockProbability(sv, 0)) = "HIGH"

\* readings above their caps and no classifier: probability 1.0, HIGH
C19_Witness ==
    /\ IsPrediction
    /\ ~glof_loaded
    /\ glof_out.sensor_values["Water_Level_m"] = 250
    /\ AtCaps(glof_out.sensor_values)
    /\ glof_p = 1000000
    /\ glof_out.risk_level = "HIGH"
    /\ glof_out.probability = 1000000

\* the names predict lists when the classifier did not answer
FallbackFactors == <<"Water_Level_m", "Flow_Rate_m3_per_s", "Ground_Movement_mm">>

\* s lists min(3, n) names of the ranking, by descending weight, each name
\* once, and no name left out outweighs a listed one
IsTopOfRanking(s, ranking) ==
    LET weight == [i \in 1..Len(ranking) |-> ranking[i][2]]
        name   == [i \in 1..Len(ranking) |-> ranking[i][1]]
    IN  /\ Len(s) = Min2(3, Len(ranking))
        /\ \E pos \in [1..Len(s) -> 1..Len(ranking)] :
              /\ \A a, b \in 1..Len(s) : a # b => pos[a] # pos[b]
              /\ \A a \in 1..Len(s) : s[a] = name[pos[a]]
              /\ \A a \in 1..(Len(s) - 1) : weight[pos[a]] >= weight[pos[a + 1]]
              /\ \A i \in 1..Len(ranking) :
                    (\A a \in 1..Len(s) : pos[a] # i) =>
                        \A a \in 1..Len(s) : weight[pos[a]] >= weight[i]

\* among names of equal weight, s follows the order of the ranking
TiesKeepOrder(s, ranking) ==
    LET at(n) == CHOOSE i \in 1..Len(ranking) : ranking[i][1] = n
        listed == { at(s[a]) : a \in 1..Len(s) }
    IN  /\ \A a \in 1..(Len(s) - 1) :
              ranking[at(s[a])][2] = ranking[at(s[a + 1])][2] => at(s[a]) < at(s[a + 1])
        /\ \A i \in (1..Len(ranking)) \ listed :
              \A j \in listed : ranking[i][2] = ranking[j][2] => j < i

StageOrder ==
    <<"image", "filtered", "sigma0", "cleaned", "normalized", "resized", "rgb", "batch">>

\* what the stage that ends at position k makes of its input
StageOutput(k, input) ==
    CASE k = 2 -> SpeckleFilter(input)
      [] k = 3 -> ConvertToSigma0(input)
      [] k = 4 -> CleanImage(input)
      [] k = 5 -> Normalize(input)
      [] k = 6 -> Resize(input)
      [] k = 7 -> StackChannels(input)
      [] k = 8 -> BatchTensor(input)

\* a step inside a pipeline call moves to the next stage of StageOrder and
\* gives that stage the value the previous stage left
StageStep ==
    (pre_entry \in {"preprocess", "preprocess_from_bytes"}
       /\ pre_pc \in {StageOrder[k] : k \in 1..8} /\ pre_pc' # pre_pc /\ pre_pc' # "idle")
    => \E k \in 1..7 :
          /\ pre_pc = StageOrder[k]
          /\ pre_pc' = StageOrder[k + 1]
          /\ pre_value' = StageOutput(k + 1, pre_value)
          /\ pre_image' = pre_image

\* the tensor both entry points owe for a decoded image
TensorOf(image) ==
    StageOutput(8, StageOutput(7, StageOutput(6, StageOutput(5,
        StageOutput(4, StageOutput(3, StageOutput(2, image)))))))

SameTensor ==
    pre_pc = "batch" => pre_value = TensorOf(pre_image)

(* C21: the preprocessing stages run in one fixed order, none skipped or
   reordered (speckle filter, dB conversion, cleaning, min-max normalization,
   resize, channel replication, batch dimension), each on the output of the
   stage before it, and preprocess and preprocess_from_bytes return the same
   tensor for the same decoded image. *)
C21_FixedStageOrder == [](SameTensor) /\ [][StageStep]_vars

\* preprocess_from_bytes has returned the tensor of an image whose three
\* cells differ, which the resize interpolates
C21_Witness ==
    /\ pre_pc = "batch"
    /\ pre_entry = "preprocess_from_bytes"
    /\ pre_image = <<0, 128, 255>>
    /\ pre_value[1][1] # pre_value[1][2]

AllFinite(image) == \A i \in DOMAIN image : IsFinite(image[i])
AllZero(image) == \A i \in DOMAIN image : image[i] = Zero
IsConstant(image) == \A i, j \in DOMAIN image : image[i] = image[j]

\* the mean of the finite cells of a grid that has one
MeanOfFinite(image) ==
    LET F == {i \in DOMAIN image : IsFinite(image[i])}
        total == SumOver([i \in F |-> image[i][1] * (1000 \div image[i][2])], F)
    IN  Rat(total, 1000 * Cardinality(F))

CleanedAsClaimed(in, out) ==
    /\ DOMAIN out = DOMAIN in
    /\ IF \E i \in DOMAIN in : IsFinite(in[i])
       THEN \A i \in DOMAIN in :
               out[i] = IF IsFinite(in[i]) THEN in[i] ELSE MeanOfFinite(in)
       ELSE AllZero(out)

(* C24: clean_image replaces every non-finite cell (NaN, +inf, -inf) by the
   mean of the finite cells and leaves the finite cells unchanged; of a grid
   without a finite cell it returns the all-zero grid. *)
C24_CleanImage ==
    (pre_pc = "returned" /\ pre_entry = "clean_image")
    => CleanedAsClaimed(pre_image, pre_value)

InUnitInterval(c) == IsFinite(c) /\ RatLe(Zero, c) /\ RatLe(c, <<1, 1>>)

NormalizedAsClaimed(in, out) ==
    /\ DOMAIN out = DOMAIN in
    /\ IsConstant(in) => AllZero(out)
    /\ (AllFinite(in) /\ ~IsConstant(in)) =>
          /\ \A i \in DOMAIN in : InUnitInterval(out[i])
          /\ \E i \in DOMAIN in : out[i] = Zero /\ in[i] = MinCell(in)
          /\ \E i \in DOMAIN in : out[i] = <<1, 1>> /\ in[i] = MaxCell(in)
          /\ Normalize(out) = out
    /\ (AllFinite(in) /\ MinCell(in) = Zero /\ MaxCell(in) = <<1, 1>>) => out = in

(* C25: normalize never divides by zero: a constant grid gives the all-zero
   grid; a finite grid that is not constant gives values in [0,1] with the
   minimum at 0 and the maximum at 1; and a grid that already has minimum 0
   and maximum 1 is returned unchanged. *)
C25_Normalize ==
    (pre_pc = "returned" /\ pre_entry = "normalize")
    => NormalizedAsClaimed(pre_image, pre_value)

\* normalize has returned for a grid of three different values from 0 to 1
C25_Witness ==
    /\ pre_pc = "returned"
    /\ pre_entry = "normalize"
    /\ pre_image = <<<<1, 2>>, Zero, <<1, 1>>>>
    /\ pre_value = pre_image

\* the frame cap.read() delivered as number i (from 1)
FrameAt(i) == mot_video.frames[i]

\* the last frame a multiple of frame_skip, of the frames read so far
LastRetained == (mot_count \div mot_skip) * mot_skip

\* inside analyze_video: prev_frame is the last retained frame, and the k-th
\* analysed pair ends at retained frame k + 1
RetainedPairs ==
    mot_pc = "loop" =>
       /\ mot_prev = IF LastRetained = 0 THEN NoFrame ELSE FrameAt(LastRetained)
       /\ Len(mot_results) = Max2(0, mot_count \div mot_skip - 1)
       /\ \A k \in DOMAIN mot_results :
             mot_results[k].frame_number = (k + 1) * mot_skip

\* what analyze_frame_pair answers for two frames, over the flows OpenCV can
\* measure between different pictures
PairResults(first, second) ==
    { AnalyzeFramePair(IF first = second THEN NoFlow ELSE flow) : flow \in FlowOutcomes }

\* an iteration that analyses a pair analyses the frame just read against the
\* frame frame_skip before it, appends the result under the number of the
\* frame just read and makes that frame the previous one
PairStep ==
    (mot_pc = "loop" /\ mot_results' # mot_results /\ mot_pc' = "loop") =>
       LET n == mot_count + 1 IN
       /\ mot_count' = n
       /\ n % mot_skip = 0 /\ n > mot_skip
       /\ \E r \in PairResults(FrameAt(n - mot_skip), FrameAt(n)) :
             mot_results' = Append(mot_results, r @@ [frame_number |-> n])
       /\ mot_prev' = FrameAt(n)

(* C22: in analyze_video the flow step is frame_skip: the frames kept are
   those whose number (from 1) is a multiple of frame_skip, prev_frame is
   reassigned at every kept frame, a pair is two consecutive kept frames
   (frame_skip apart), pairs are analysed in increasing order and a result's
   frame_number is the number of its pair's second frame. *)
C22_FlowStepIsFrameSkip == [](RetainedPairs) /\ [][PairStep]_vars

\* with frame_skip 2, frames 2 and 4 of a video have been analysed as a pair
\* although frames 3 and 4 show the same picture
C22_Witness ==
    /\ mot_pc = "loop"
    /\ mot_skip = 2
    /\ mot_video.frames = <<"a", "a", "b", "b">>
    /\ Len(mot_results) = 1
    /\ mot_results[1].frame_number = 4
    /\ mot_results[1].water_motion_regions > 0

\* the per-pair results at hand: of the video being analysed, and of the
\* last analyze_image_pair call
PairResultsAtHand ==
    {mot_results[k] : k \in DOMAIN mot_results} \cup
    (IF "water_motion_regions" \in DOMAIN mot_out THEN {mot_out} ELSE {})

StillPair(r) == r.motion_detected_pixels = 0

ReportsNothing(r) ==
    /\ r.water_motion_regions = 0
    /\ r.regions = <<>>
    /\ r.total_flow_volume_m3 = 0
    /\ r.avg_flow_velocity = 0

(* C27: when no pixel's flow magnitude exceeds the threshold (as between two
   identical frames), a pair is reported with zero regions, volume 0 and
   velocity 0 whatever the water mask holds; a video all of whose analysed
   pairs are of this kind has average volume 0 and average velocity 0, and
   risk LOW when a pair was analysed. *)
C27_NoMotionNoFlow ==
    /\ \A r \in PairResultsAtHand : StillPair(r) => ReportsNothing(r)
    /\ (mot_pc = "done" /\ "analysis" \in DOMAIN mot_out
          /\ \A k \in DOMAIN mot_results : StillPair(mot_results[k])) =>
          /\ mot_out.analysis.avg_flow_volume_m3 = 0
          /\ mot_out.analysis.max_flow_volume_m3 = 0
          /\ mot_out.analysis.avg_flow_velocity = 0
          /\ mot_results # <<>> => mot_out.risk.level = "LOW"

\* a video of a lake whose frames are all the same picture has been analysed
\* in two pairs
C27_Witness ==
    /\ mot_pc = "done"
    /\ "analysis" \in DOMAIN mot_out
    /\ Len(mot_results) = 2
    /\ \A k \in DOMAIN mot_results :
          StillPair(mot_results[k]) /\ mot_results[k].water_detected_pixels > 0
    /\ mot_out.risk.level = "LOW"

\* the GLOF probability of an image before round(., 2), in thousandths of a
\* percent
UnroundedGlofProbability(path) ==
    LET p == SARFiles[path].predictions
    IN  Min2(100000, 10 * p[2] + 3 * p[3] + 1 * p[1])

RECURSIVE UnroundedOf(_)
UnroundedOf(rs) ==
    IF rs = <<>> THEN <<>>
    ELSE <<UnroundedGlofProbability(Head(rs).image_path)>> \o UnroundedOf(Tail(rs))

(* C26: rounding is for presentation only: the aggregates (here the average
   and the maximum GLOF probability of a batch) are computed from the
   per-observation values before rounding, never from values that were
   already rounded to 2 or 4 decimal places. *)
C26_AggregatesFromUnrounded ==
    (IsBatch(sar_out) /\ sar_out.success) =>
        LET exact == UnroundedOf(SelectSuccess(sar_out.individual_results))
        IN  /\ sar_out.average_glof_probability
                  = RoundHalfEven(SumSeq(exact), 10 * Len(exact))
            /\ sar_out.max_glof_probability = RoundHalfEven(MaxSeq(exact), 10)

\* the largest region did not shrink, in pixels and in square metres, and
\* the change it is reported with is not negative
NeverShrinks(part) ==
    /\ part.size_after_m2 >= part.size_before_m2
    /\ part.change_percent >= 0

(* C23: dilation is monotonic for the region size: for every mask that is
   not empty and every disk radius >= 0 the largest 8-connected region of
   the dilated mask is at least as large as that of the mask, so the lake
   and ice change percentages are never negative. *)
C23_DilationNeverShrinks ==
    (lake_pc = "done" /\ "lake_mask" \in DOMAIN lake_in) =>
        LET lake_mask == lake_in.lake_mask
            ice_mask == Grid \ lake_mask
        IN  /\ GetLargestRegionSize(Dilation(lake_mask, lake_in.dilation_lake))
                  >= GetLargestRegionSize(lake_mask)
            /\ GetLargestRegionSize(Dilation(ice_mask, lake_in.dilation_ice))
                  >= GetLargestRegionSize(ice_mask)
            /\ lake_in.image.lake_after >= lake_in.image.lake_before
            /\ lake_in.image.ice_after >= lake_in.image.ice_before
            /\ NeverShrinks(lake_out.lake)
            /\ NeverShrinks(lake_out.ice)

\* two lake pixels that do not touch are joined by the dilation: the largest
\* region grows from 1 pixel to 5
C23_Witness ==
    /\ lake_pc = "done"
    /\ "lake_mask" \in DOMAIN lake_in
    /\ lake_in.lake_mask = {<<1, 1>>, <<3, 1>>}
    /\ lake_in.dilation_lake = 1
    /\ lake_in.image.lake_before = 1
    /\ lake_in.image.lake_after = 5
    /\ lake_out.lake.change_percent = 40000

\* the call that has just been served made a prediction
PredictionServed ==
    /\ glof_in = NoResult /\ glof_in' # NoResult
    /\ "probability" \in DOMAIN glof_out'

\* sensor values were supplied with the request
ValuesSupplied(request) ==
    /\ request.endpoint = "POST /api/predict"
    /\ DOMAIN request.body # {}

\* the reading a body supplies for a key of the baseline, if it does
SuppliedKeys(body) == {FieldMappingKey(f) : f \in DOMAIN body}

PredictionStep ==
    PredictionServed =>
       IF ValuesSupplied(glof_in')
       THEN /\ glof_baseline' = glof_baseline
            /\ glof_steps' = glof_steps
            /\ DOMAIN glof_out'.sensor_values = SensorKeys
            /\ \A f \in DOMAIN glof_in'.body :
                  glof_out'.sensor_values[FieldMappingKey(f)] = glof_in'.body[f]
            /\ \A k \in SensorKeys \ SuppliedKeys(glof_in'.body) :
                  glof_out'.sensor_values[k] = glof_baseline[k]
       ELSE /\ glof_steps' = glof_steps + 1
            /\ \E change \in DriftVectors :
                  glof_baseline' = GenerateSensorValues(glof_baseline, change)
            /\ glof_out'.sensor_values = glof_baseline'

SeventeenKeys ==
    /\ Cardinality(SensorKeys) = 17
    /\ DOMAIN glof_baseline = SensorKeys

(* C28: a prediction for supplied values (POST /api/predict with at least one
   field, merged over a copy of the baseline, the _percent fields under the
   _% keys, so that the merged mapping has exactly the 17 baseline keys)
   never modifies sensor_baseline; only a prediction without supplied values
   advances the baseline, by exactly one step. *)
C28_SuppliedValuesKeepBaseline == [](SeventeenKeys) /\ [][PredictionStep]_vars

\* after the baseline has drifted, a POST with the two _percent fields was
\* answered from the merged readings and left the baseline as it was
C28_Witness ==
    /\ glof_in # NoResult
    /\ ValuesSupplied(glof_in)
    /\ "Sensor_Accuracy_percent" \in DOMAIN glof_in.body
    /\ glof_steps = 1
    /\ glof_baseline # InitialBaseline
    /\ glof_out.sensor_values["Sensor_Accuracy_%"] = 900
    /\ glof_baseline["Sensor_Accuracy_%"] = 950
    /\ glof_out.sensor_values["Water_Level_m"] = glof_baseline["Water_Level_m"]

\* the index of a class label in CLASS_LABELS
ClassIndex(label) == CHOOSE i \in DOMAIN CLASS_LABELS : CLASS_LABELS[i] = label

\* a formatted prediction as the claim describes it, read off the response:
\* the weighted GLOF probability (presented in hundredths of a percent), a
\* predicted class of maximal probability with its probability as the
\* confidence, the risk entry of that class, and CRITICAL whenever
\* during_glof is highest, alone or jointly
FormattedAsClaimed(r) ==
    LET pre == r.probabilities[1]
        during == r.probabilities[2]
        post == r.probabilities[3]
        k == ClassIndex(r.predicted_class)
    IN  /\ r.glof_probability
              = RoundHalfEven(Min2(100000, 10 * during + 3 * post + pre), 10)
        /\ r.glof_probability \in 0..10000
        /\ \A j \in 1..3 : r.probabilities[j] <= r.probabilities[k]
        /\ r.confidence = r.probabilities[k]
        /\ r.predicted_class = "pre_glof" =>
               /\ r.risk_level = "LOW" /\ r.risk_score = 25
               /\ r.message = "Normal conditions - Pre-GLOF state"
        /\ r.predicted_class = "during_glof" =>
               /\ r.risk_level = "CRITICAL" /\ r.risk_score = 95
               /\ r.message = "GLOF IN PROGRESS - Immediate evacuation required!"
        /\ r.predicted_class = "post_glof" =>
               /\ r.risk_level = "MODERATE" /\ r.risk_score = 50
               /\ r.message = "Post-GLOF conditions - Monitor for secondary events"
        /\ (during >= pre /\ during >= post) => r.risk_level = "CRITICAL"

(* C29: for every class-probability vector _format_prediction reports
   glof_probability = min(100, 100 x (1.0 p_during + 0.3 p_post + 0.1 p_pre))
   in [0,100], a predicted class of maximal probability, that class's
   probability as confidence, and risk_level, risk_score and message of that
   class's risk-mapping entry; whenever during_glof has the strictly or
   jointly highest probability the risk level is CRITICAL. *)
C29_FormatPrediction ==
    (sar_pc = "done" /\ ~IsBatch(sar_out) /\ sar_out.success) =>
        FormattedAsClaimed(sar_out)

\* POST /api/alert/send answers in this step
AlertAnswered ==
    /\ glof_out = NoResult
    /\ glof_out' # NoResult
    /\ glof_in'.endpoint = "POST /api/alert/send"

\* the answer of the step, as the claim describes it: 'sent' is said only
\* after every recipient was tried, with the counts adding up and at least
\* one SMS accepted; after a loop in which every recipient failed the answer
\* is an error
DeliveryReportedTruthfully ==
    /\ "status" \in DOMAIN glof_out' =>
           LET result == glof_out'.alert_result
           IN  /\ glof_out'.status = "sent"
               /\ alert_attempted = alert_env.phone_numbers
               /\ result.sent_count + Len(result.errors.items)
                      = result.total_recipients
               /\ result.sent_count >= 1
    /\ (alert_pc = "loop" /\ alert_sent = 0) => "status_code" \in DOMAIN glof_out'

(* C30: the alert path reports delivery truthfully: send_sms_alert attempts
   every recipient even after an earlier one failed, sent_count plus the
   number of recorded errors equals total_recipients, and POST
   /api/alert/send answers 'sent' only if at least one SMS was accepted;
   when every recipient fails it reports an error instead. *)
C30_TruthfulDelivery == [][AlertAnswered => DeliveryReportedTruthfully]_vars

=============================================================================
